---- MODULE Spec2Model ----
(***************************************************************************)
(* A model of mcp-server-terminal: the session registry (manager.rs and    *)
(* the tool handlers of protocol/server.rs), the per-session locks and I/O *)
(* paths (session.rs, pty.rs), the cell grid and its parser (grid.rs,      *)
(* parser.rs) and the waiter (wait.rs, snapshot.rs).                       *)
(*                                                                         *)
(* The module holds several specifications over one set of variables; each *)
(* leaves the variables of the other parts unchanged.                      *)
(*   Spec      the SessionManager registry and the session life cycle      *)
(*   SrvSpec   the registry of the tool handlers                           *)
(*   IoSpec    write, process_output and the recorder of one session       *)
(*   GridSpec  the grid under the parser's callbacks and resize            *)
(*   WaitSpec  one wait_for call with its snapshots, in ticks of 10 ms     *)
(***************************************************************************)
EXTENDS Integers, Sequences, FiniteSets, TLC

(***************************************************************************)
(* Bounds of the model.                                                    *)
(***************************************************************************)
NumThreads == 2        \* concurrent callers
MaxIds == 2            \* sessions ever spawned in one run
MaxSessions == 1       \* SessionManagerConfig.max_sessions of the run
MaxWrites == 2         \* write calls in one run, over all callers
WriteLen == 2          \* bytes of one write call
MaxOut == 2            \* output bytes the child produces in one run
MaxRows == 2           \* rows of the largest grid
MaxCols == 2           \* columns of the largest grid
MaxParam == 2          \* the largest CSI parameter
MaxTimeout == 3        \* the longest WaitCondition.timeout, in ticks of 10 ms
IdleThreshold == 2     \* SnapshotConfig.idle_threshold, in ticks
IdleTimeout == 3       \* SnapshotConfig.idle_timeout, in ticks
PollInterval == 1      \* WaitCondition.poll_interval, in ticks
MaxCapture == 2        \* the longest capture of the normal screen, in bytes
AltLen == 1            \* the longest capture of the alternate screen
MaxProduced == 3       \* the output bytes a child produces
ReadMax == 2           \* the bytes one PTY read returns at most
ScreenCols == 2        \* the columns of the one-row grid
MaxItems == 4          \* the most items of a menu
DetRows == 4           \* the rows of the grid of a snapshot
DetCols == 1002        \* its columns

Threads == 1..NumThreads
Ids == 1..MaxIds
NoSession == 0

VARIABLES
    \* ---- registry and life cycle ----
    sessions,      \* SessionManager.sessions: the ids in the manager's map
    srv_sessions,  \* TerminalMcpServer.sessions: the ids in the server's map
    srvWriter,     \* the tool call holding the server map's write lock, or 0
    status,        \* Session.status of every spawned session
    alive,         \* whether the PTY child of the session still runs
    nextId,        \* the next fresh SessionId
    pc,            \* where each caller is inside its operation
    arg,           \* the session id the caller's operation is about
    handed,        \* the ids whose Arc<Session> some caller holds
    result,        \* the outcome of the last completed operation
    closedOk,      \* ids for which a close has returned success
    \* ---- one session's locks and I/O paths ----
    ptyLock,       \* the caller holding Session.pty, or 0
    ioPc,          \* where each caller is inside write / process_output
    wn,            \* the number of write calls each caller has issued
    chunk,         \* the bytes a process_output call has read: <<first, last>>
    ptyIn,         \* the bytes that have reached the PTY: <<caller, call, index>>
    produced,      \* the output bytes the child has produced so far
    readUpTo,      \* the output bytes read from the PTY so far
    outBuf,        \* Session.output_buf: the output bytes appended so far
    recording,     \* Session.recorder is Some
    events,        \* SessionRecorder.events
    actual,        \* the transfers at the PTY while recording, in their order
    parserFed,     \* the output bytes fed to the parser, in feeding order
    \* ---- the grid of one parser ----
    dimensions,    \* Grid.dimensions: [rows, cols]
    cells,         \* Grid.cells, row-major; 0 is Cell::default(), 1 a printed cell
    cursor,        \* Grid.cursor.position: [row, col]
    saved_cursor,  \* Grid.saved_cursor: <<>> for None, <<position>> for Some
    \* ---- one wait_for call ----
    wpc,           \* where the call is: none, loop, the sleeps, snap, done
    waitMode,      \* "idle" or "content": WaitCondition.idle
    pattern,       \* WaitCondition.text: none, or a regex "valid" or "invalid"
    timeout,       \* WaitCondition.timeout of the call
    tmux,          \* the session's PTY is tmux-backed
    elapsed,       \* start.elapsed(), kept up to timeout
    idleFor,       \* last_activity_check.elapsed(), kept up to IdleThreshold
    snapRet,       \* what the running snapshot was taken for
    snapElapsed,   \* wait_for_idle: start.elapsed(), kept up to IdleTimeout + 1
    snapIdle,      \* wait_for_idle: last_output.elapsed(), kept up to IdleThreshold
    sleepLeft,     \* what is left of the running sleep
    pending,       \* the PTY holds output that was not read yet
    broken,        \* the PTY fails every read (child gone, tmux session gone)
    matches,       \* the grid satisfies the condition of a content-mode call
    wresult,       \* none, met, notmet (Ok with condition_met), err (of a
                   \* PTY read) or invalid_input (of the pattern)
    timedOut,      \* the call has found its timeout expired
    readFailed,    \* a process_output of the call has returned an error
    finalSnap,     \* a snapshot was completed after the timeout was found
    gQuiet,        \* observer: time since the last read that returned bytes
    quietDone,     \* observer: gQuiet reached IdleThreshold before the timeout
    pollQuiet      \* observer: a poll before the timeout read nothing, gQuiet full

regVars == <<sessions, srv_sessions, srvWriter, status, alive, nextId,
             pc, arg, handed, result, closedOk>>

ioVars == <<ptyLock, ioPc, wn, chunk, ptyIn, produced, readUpTo, outBuf,
            recording, events, actual, parserFed>>

gridVars == <<dimensions, cells, cursor, saved_cursor>>

waitVars == <<wpc, waitMode, pattern, timeout, tmux, elapsed, idleFor, snapRet, snapElapsed,
              snapIdle, sleepLeft, pending, broken, matches, wresult, timedOut,
              readFailed, finalSnap, gQuiet, quietDone, pollQuiet>>

VARIABLES
    \* ---- one tmux-backed PtyHandle ----
    pane_alt,          \* what capture-pane -a prints: the alternate screen
    pane_normal,       \* what capture-pane prints: the normal screen
    tmuxUp,            \* tmux has-session succeeds
    last_tmux_content, \* PtyHandle.last_tmux_content
    tmuxRet,           \* what the last read returned: [kind, bytes]
    prevCapture,       \* observer: the capture of the last read that captured
    invalidated,       \* observer: the cache was invalidated since that capture
    wasSame,           \* observer: the last capture repeated prevCapture, not invalidated
    forcedReads        \* observer: reads since the last invalidation that
                       \* returned a capture identical to the one before

tmuxVars == <<pane_alt, pane_normal, tmuxUp, last_tmux_content, tmuxRet,
              prevCapture, invalidated, wasSame, forcedReads>>

VARIABLES
    \* ---- the output buffer of one session ----
    ptyPending,    \* the output bytes that the PTY holds, not read yet
    raw_buffer,    \* OutputBuffer.raw_buffer
    last_read_pos, \* OutputBuffer.last_read_pos
    screenRow,     \* the characters in the cells of the parser's one-row grid
    screenCol,     \* the column of its cursor
    outRead,       \* the last OutputRead, with the arguments of its call and,
                   \* as observer, the bytes buffered since the call before
    sincePrev,     \* observer: the bytes buffered since the previous read_output
    leftInPty      \* observer: the PTY held output when the last read_output returned

outVars == <<ptyPending, raw_buffer, last_read_pos, screenRow, screenCol,
             outRead, sincePrev, leftInPty>>

VARIABLES
    \* ---- one click on a snapshot ----
    tst,        \* the snapshot: a Menu element, [detected, ref_id, items, selected]
    navTarget,  \* target_ref of the click
    navKeys,    \* the keys that calculate has returned
    navResult,  \* none, ok, element-not-found or invalid-input
    navSent,    \* the bytes that click has written to the PTY
    navI,       \* the keys written so far
    navPc       \* idle, sending or done

navVars == <<tst, navTarget, navKeys, navResult, navSent, navI, navPc>>

VARIABLES
    \* ---- one run of the detection pipeline ----
    dgrid,           \* the grid of the snapshot: [<<row, col>> -> [ch, reverse]]
    dcursor,         \* the cursor of the snapshot: <<row, col>>
    claimed_regions, \* DetectionContext.claimed_regions
    all_elements,    \* the elements that the detectors have returned so far
    tstElements,     \* TerminalStateTree.elements
    detPc            \* none; border, menu, checkbox: the detector to run next; assemble; done

detVars == <<dgrid, dcursor, claimed_regions, all_elements, tstElements, detPc>>

\* The parts added to the first four.
restVars == <<tmuxVars, outVars, navVars, detVars>>

VARIABLES
    \* ---- one run of BorderDetector::detect, with its arithmetic ----
    build,           \* debug: overflow checks on; release: off
    dims,            \* grid.dimensions(): <<rows, cols>>
    boxes_drawn,     \* the bounds of the boxes on the screen, in scan order
    traced,          \* borders: the borders traced
    outermost,       \* what filter_contained_borders returned
    bordPc           \* none, trace, filter, done or panic

bordVars == <<build, dims, boxes_drawn, traced, outermost, bordPc>>

VARIABLES
    \* ---- one key text on its way through Key::parse and back ----
    keyText,         \* the text given, a sequence of characters
    parsed,          \* Key::parse(keyText)
    shown,           \* the Display of the key parsed
    encoded,         \* its to_escape_sequence()
    reparsed,        \* Key::parse(shown)
    keyPc            \* none, parse, encode, reparse or done

keyVars == <<keyText, parsed, shown, encoded, reparsed, keyPc>>

VARIABLES
    \* ---- one tool call at the boundary of the server ----
    tool,            \* the tool called
    sidKind,         \* params.session_id: malformed, unknown or known
    argGood,         \* the key parses, the ref_id is on the screen, the
                     \* pattern is a regex
    ptyFails,        \* the PTY of the session fails its reads and writes
    coreErr,         \* the Error the session returned to the handler
    code,            \* the ErrorCode of the answer, 0 for a success
    toolPc           \* none, lookup, call or done

toolVars == <<tool, sidKind, argGood, ptyFails, coreErr, code, toolPc>>

VARIABLES
    \* ---- one SessionRecorder, written as text and read back ----
    float_roundtrip, \* the build: serde_json has its feature float_roundtrip
    rec_events,      \* SessionRecorder.events
    cast,            \* the text of to_string(), a sequence of characters
    loaded,          \* what from_str made of the text: [ok, events]
    recPc            \* none, save, load or done

recVars == <<float_roundtrip, rec_events, cast, loaded, recPc>>

VARIABLES
    \* ---- threads at the locks of one session and of the registries ----
    lop,             \* the operation each thread is in, or "idle"
    lpc,             \* the place of each thread in the steps of its operation
    held             \* per lock, who holds it and how: <<thread, "x" or "r">>

lockVars == <<lop, lpc, held>>

VARIABLES
    \* ---- one byte stream fed to a parser whole and in two parts ----
    pstream,         \* the bytes
    pcut,            \* how many of them the first process call gets
    pwhole,          \* the grid of the parser that got them in one call
    psplit,          \* the grid of the parser that got them in two calls
    parsePc          \* none, whole, first, second or done

parseVars == <<pstream, pcut, pwhole, psplit, parsePc>>

VARIABLES
    \* ---- snapshots of one tmux-backed session ----
    fpane,           \* the lines of the tmux pane
    fgrid,           \* the grid of the session's parser
    fcache,          \* PtyHandle.last_tmux_content
    fptyLock,        \* the thread holding Session.pty, or 0
    fop,             \* the operation each thread is in: none, snapshot, process_output
    fpc,             \* where each thread is inside it
    fbytes,          \* what the pty.read() of the thread's process_output returned
    fraw             \* the raw_text of the snapshot the thread has returned

frameVars == <<fpane, fgrid, fcache, fptyLock, fop, fpc, fbytes, fraw>>

\* The parts added after those.
midVars == <<bordVars, keyVars, toolVars, recVars>>
lastVars == <<lockVars, parseVars, frameVars>>
moreVars == <<midVars, lastVars>>

vars == <<regVars, ioVars, gridVars, waitVars, restVars, moreVars>>

\* An operation of the registry leaves the other parts alone.
RegOnly == UNCHANGED <<ioVars, gridVars, waitVars, restVars, moreVars>>

(***************************************************************************)
(* Registry: manager.rs                                                    *)
(***************************************************************************)
Res(op, on, out) == [op |-> op, on |-> on, out |-> out]
NoResult == Res("none", "none", "none")

\* An operation returns r to its caller; its locals are gone.
Done(t, r) ==
    /\ pc' = [pc EXCEPT ![t] = "idle"]
    /\ arg' = [arg EXCEPT ![t] = NoSession]
    /\ result' = r

\* manager.rs:62  sessions.len() >= self.config.max_sessions
LimitReached(s) == Cardinality(s) >= MaxSessions

\* create_session, the read-locked check (manager.rs:61-65)
CreateCheck(t) ==
    /\ pc[t] = "idle"
    /\ IF LimitReached(sessions)
       THEN Done(t, Res("create", "none", "session-limit-reached"))
       ELSE /\ pc' = [pc EXCEPT ![t] = "create_spawn"]
            /\ UNCHANGED <<result, arg>>
    /\ UNCHANGED <<sessions, srv_sessions, srvWriter, status, alive, nextId,
                   handed, closedOk>>
    /\ RegOnly

\* Session::create_with_mode (session.rs:72-118): spawn the PTY, a fresh id,
\* status Running.  The spawn may fail with a PTY error.
SpawnSession(t, next) ==
    \/ /\ nextId <= MaxIds
       /\ status' = [status EXCEPT ![nextId] = "Running"]
       /\ alive' = [alive EXCEPT ![nextId] = TRUE]
       /\ arg' = [arg EXCEPT ![t] = nextId]
       /\ nextId' = nextId + 1
       /\ pc' = [pc EXCEPT ![t] = next]
       /\ UNCHANGED result
    \/ /\ Done(t, Res("create", "none", "pty-error"))
       /\ UNCHANGED <<status, alive, nextId>>

\* create_session, Session::create (manager.rs:72-74)
CreateSpawn(t) ==
    /\ pc[t] = "create_spawn"
    /\ SpawnSession(t, "create_insert")
    /\ UNCHANGED <<sessions, srv_sessions, srvWriter, handed, closedOk>>
    /\ RegOnly

\* create_session, the write-locked insert (manager.rs:77-80)
CreateInsert(t) ==
    /\ pc[t] = "create_insert"
    /\ sessions' = sessions \cup {arg[t]}
    /\ handed' = handed \cup {arg[t]}
    /\ Done(t, Res("create", "none", "ok"))
    /\ UNCHANGED <<srv_sessions, srvWriter, status, alive, nextId, closedOk>>
    /\ RegOnly

\* get_session (manager.rs:84-90)
get_session(t, id) ==
    /\ pc[t] = "idle"
    /\ IF id \in sessions
       THEN /\ handed' = handed \cup {id}
            /\ Done(t, Res("get", status[id], "ok"))
       ELSE /\ Done(t, Res("get", "none", "session-not-found"))
            /\ UNCHANGED handed
    /\ UNCHANGED <<sessions, srv_sessions, srvWriter, status, alive, nextId,
                   closedOk>>
    /\ RegOnly

\* Session::terminate without its set_status(Terminated).
terminateStatusKept(id, killed) ==
    /\ alive' = IF killed THEN [alive EXCEPT ![id] = FALSE] ELSE alive
    /\ status' = status

\* Session::terminate (session.rs:377-396): kill the PTY under the pty lock;
\* a failed kill returns its error and leaves the status alone.
terminate(id, killed) ==
    /\ alive' = IF killed THEN [alive EXCEPT ![id] = FALSE] ELSE alive
    /\ status' = IF killed THEN [status EXCEPT ![id] = "Terminated"] ELSE status

\* close_session, the lookup (manager.rs:109)
CloseGet(t, id) ==
    /\ pc[t] = "idle"
    /\ IF id \in sessions
       THEN /\ pc' = [pc EXCEPT ![t] = "close_terminate"]
            /\ arg' = [arg EXCEPT ![t] = id]
            /\ UNCHANGED result
       ELSE Done(t, Res("close", "none", "session-not-found"))
    /\ UNCHANGED <<sessions, srv_sessions, srvWriter, status, alive, nextId,
                   handed, closedOk>>
    /\ RegOnly

\* close_session, session.terminate()? (manager.rs:110)
CloseTerminate(t) ==
    /\ pc[t] = "close_terminate"
    /\ \E killed \in BOOLEAN :
        /\ terminate(arg[t], killed)
        /\ IF killed
           THEN pc' = [pc EXCEPT ![t] = "close_remove"] /\ UNCHANGED <<result, arg>>
           ELSE Done(t, Res("close", status[arg[t]], "pty-error"))
    /\ UNCHANGED <<sessions, srv_sessions, srvWriter, nextId, handed, closedOk>>
    /\ RegOnly

\* close_session, the write-locked removal (manager.rs:113-116)
CloseRemove(t) ==
    /\ pc[t] = "close_remove"
    /\ sessions' = sessions \ {arg[t]}
    /\ closedOk' = closedOk \cup {arg[t]}
    /\ Done(t, Res("close", status[arg[t]], "ok"))
    /\ UNCHANGED <<srv_sessions, srvWriter, status, alive, nextId, handed>>
    /\ RegOnly

(***************************************************************************)
(* Registry: the tool handlers of protocol/server.rs                       *)
(***************************************************************************)
\* terminal_session_create, Session::create_with_mode (server.rs:129-144)
SrvCreateSpawn(t) ==
    /\ pc[t] = "idle"
    /\ SpawnSession(t, "srv_create_insert")
    /\ UNCHANGED <<sessions, srv_sessions, srvWriter, handed, closedOk>>
    /\ RegOnly

\* terminal_session_create, the write-locked insert (server.rs:161-164)
SrvCreateInsert(t) ==
    /\ pc[t] = "srv_create_insert"
    /\ srvWriter = 0
    /\ srv_sessions' = srv_sessions \cup {arg[t]}
    /\ Done(t, Res("create", "none", "ok"))
    /\ UNCHANGED <<sessions, srvWriter, status, alive, nextId, handed, closedOk>>
    /\ RegOnly

\* TerminalMcpServer::get_session (server.rs:78-97)
SrvGet(t, id) ==
    /\ pc[t] = "idle"
    /\ srvWriter = 0
    /\ IF id \in srv_sessions
       THEN /\ handed' = handed \cup {id}
            /\ Done(t, Res("get", status[id], "ok"))
       ELSE /\ Done(t, Res("get", "none", "session-not-found"))
            /\ UNCHANGED handed
    /\ UNCHANGED <<sessions, srv_sessions, srvWriter, status, alive, nextId,
                   closedOk>>
    /\ RegOnly

\* terminal_session_close: take the write lock and remove (server.rs:238-252)
SrvCloseRemove(t, id) ==
    /\ pc[t] = "idle"
    /\ srvWriter = 0
    /\ IF id \in srv_sessions
       THEN /\ srv_sessions' = srv_sessions \ {id}
            /\ srvWriter' = t
            /\ arg' = [arg EXCEPT ![t] = id]
            /\ pc' = [pc EXCEPT ![t] = "srv_close_terminate"]
            /\ UNCHANGED result
       ELSE /\ Done(t, Res("close", "none", "session-not-found"))
            /\ UNCHANGED <<srv_sessions, srvWriter>>
    /\ UNCHANGED <<sessions, status, alive, nextId, handed, closedOk>>
    /\ RegOnly

\* terminal_session_close: terminate the removed session, its error only
\* logged, and answer success (server.rs:254-269)
SrvCloseTerminate(t) ==
    /\ pc[t] = "srv_close_terminate"
    /\ \E killed \in BOOLEAN : terminate(arg[t], killed)
    /\ srvWriter' = 0
    /\ closedOk' = closedOk \cup {arg[t]}
    /\ Done(t, Res("close", status[arg[t]], "ok"))
    /\ UNCHANGED <<sessions, srv_sessions, nextId, handed>>
    /\ RegOnly

(***************************************************************************)
(* Session operations through a held handle (session.rs, pty.rs)           *)
(***************************************************************************)
SessionOps == {"write", "resize", "process_output"}

\* What the PTY call of an operation returns: Ok while the child runs; once
\* the child is gone the OS decides between success and an error, which is
\* Error::Io for read and write (pty.rs:302, 410) and Error::PtyError for
\* resize (pty.rs:471).
PtyOutcomes(op, running) ==
    IF running THEN {"ok"}
    ELSE IF op = "resize" THEN {"ok", "pty-error"} ELSE {"ok", "io"}

\* Session::write / resize / process_output (session.rs:185-243), called by
\* a caller that is in no other operation: take the pty lock and return what
\* the PTY call returns.
SessionOp(id, op) ==
    /\ "idle" \in {pc[t] : t \in Threads}
    /\ id \in handed
    /\ \E out \in PtyOutcomes(op, alive[id]) :
         result' = Res(op, status[id], out)
    /\ UNCHANGED <<sessions, srv_sessions, srvWriter, status, alive, nextId,
                   pc, arg, handed, closedOk>>
    /\ RegOnly

\* The child process exits on its own.
ChildExit(id) ==
    /\ status[id] = "Running"
    /\ alive[id]
    /\ alive' = [alive EXCEPT ![id] = FALSE]
    /\ UNCHANGED <<sessions, srv_sessions, srvWriter, status, nextId, pc, arg,
                   handed, result, closedOk>>
    /\ RegOnly

RegInit ==
    /\ sessions = {}
    /\ srv_sessions = {}
    /\ srvWriter = 0
    /\ status = [i \in Ids |-> "none"]
    /\ alive = [i \in Ids |-> FALSE]
    /\ nextId = 1
    /\ pc = [t \in Threads |-> "idle"]
    /\ arg = [t \in Threads |-> NoSession]
    /\ handed = {}
    /\ result = NoResult
    /\ closedOk = {}

\* The callers of the SessionManager.
MgrNext ==
    \/ \E t \in Threads : CreateCheck(t)
    \/ \E t \in Threads : CreateSpawn(t)
    \/ \E t \in Threads : CreateInsert(t)
    \/ \E t \in Threads, id \in Ids : get_session(t, id)
    \/ \E t \in Threads, id \in Ids : CloseGet(t, id)
    \/ \E t \in Threads : CloseTerminate(t)
    \/ \E t \in Threads : CloseRemove(t)
    \/ \E id \in Ids, op \in SessionOps : SessionOp(id, op)
    \/ \E id \in Ids : ChildExit(id)

\* The tool calls of the server.
SrvNext ==
    \/ \E t \in Threads : SrvCreateSpawn(t)
    \/ \E t \in Threads : SrvCreateInsert(t)
    \/ \E t \in Threads, id \in Ids : SrvGet(t, id)
    \/ \E t \in Threads, id \in Ids : SrvCloseRemove(t, id)
    \/ \E t \in Threads : SrvCloseTerminate(t)
    \/ \E id \in Ids, op \in SessionOps : SessionOp(id, op)
    \/ \E id \in Ids : ChildExit(id)

\* The state of the session parts before any I/O.
IoIdle ==
    /\ ptyLock = 0
    /\ ioPc = [t \in Threads |-> "idle"]
    /\ wn = [t \in Threads |-> 0]
    /\ chunk = [t \in Threads |-> <<0, 0>>]
    /\ ptyIn = <<>>
    /\ produced = 0
    /\ readUpTo = 0
    /\ outBuf = 0
    /\ recording = FALSE
    /\ events = <<>>
    /\ actual = <<>>
    /\ parserFed = <<>>

\* Grid::new (grid.rs:80-93): default cells, the cursor at the origin.
GridNew ==
    /\ dimensions = [rows |-> MaxRows, cols |-> MaxCols]
    /\ cells = [i \in 1..(MaxRows * MaxCols) |-> 0]
    /\ cursor = [row |-> 0, col |-> 0]
    /\ saved_cursor = <<>>

\* No wait_for call has begun.
WaitIdle ==
    /\ wpc = "none"
    /\ waitMode = "idle"
    /\ pattern = "none"
    /\ timeout = 0
    /\ tmux = FALSE
    /\ elapsed = 0
    /\ idleFor = 0
    /\ snapRet = "none"
    /\ snapElapsed = 0
    /\ snapIdle = 0
    /\ sleepLeft = 0
    /\ pending = FALSE
    /\ broken = FALSE
    /\ matches = FALSE
    /\ wresult = "none"
    /\ timedOut = FALSE
    /\ readFailed = FALSE
    /\ finalSnap = FALSE
    /\ gQuiet = 0
    /\ quietDone = FALSE
    /\ pollQuiet = FALSE

\* PtyHandle::spawn_tmux (pty.rs:160-173): an empty cache; nothing read yet.
TmuxIdle ==
    /\ pane_alt = <<>>
    /\ pane_normal = <<10>>
    /\ tmuxUp = TRUE
    /\ last_tmux_content = <<>>
    /\ tmuxRet = [kind |-> "none", bytes |-> <<>>]
    /\ prevCapture = <<>>
    /\ invalidated = FALSE
    /\ wasSame = FALSE
    /\ forcedReads = 0

\* OutputBuffer::new (output.rs:19-24) and an empty grid; no read_output yet.
OutIdle ==
    /\ ptyPending = <<>>
    /\ raw_buffer = <<>>
    /\ last_read_pos = 0
    /\ screenRow = [c \in 1..ScreenCols |-> 32]
    /\ screenCol = 0
    /\ outRead = [kind |-> "none", since_last_read |-> FALSE, include_ansi |-> FALSE,
                  output |-> <<>>, bytes |-> 0, has_more |-> FALSE,
                  buffered |-> <<>>]
    /\ sincePrev = <<>>
    /\ leftInPty = FALSE

\* The ref_id of an element, "<type>_<n>", as its two parts; NoRef is "".
Ref(type, n) == [type |-> type, n |-> n]
NoRef == Ref("", 0)

\* No click has begun.
NavCallIdle ==
    /\ navTarget = NoRef
    /\ navKeys = <<>>
    /\ navResult = "none"
    /\ navSent = <<>>
    /\ navI = 0
    /\ navPc = "idle"

\* A snapshot without a menu.
NavIdle ==
    /\ tst = [detected |-> FALSE, ref_id |-> NoRef, items |-> <<>>, selected |-> 0]
    /\ NavCallIdle

\* No detection has begun.
DetRunIdle ==
    /\ claimed_regions = <<>>
    /\ all_elements = <<>>
    /\ tstElements = <<>>

\* No snapshot is being taken.
DetIdle ==
    /\ dgrid = <<>>
    /\ dcursor = <<0, 0>>
    /\ detPc = "none"
    /\ DetRunIdle

\* BorderDetector::detect has not been called.
BordIdle ==
    /\ build = "release"
    /\ dims = <<0, 0>>
    /\ boxes_drawn = <<>>
    /\ traced = <<>>
    /\ outermost = <<>>
    /\ bordPc = "none"

\* The result of a parse not made.
NoParse == [ok |-> FALSE, key |-> <<>>, err |-> "none"]

\* No key text has been given.
KeyIdle ==
    /\ keyText = <<>>
    /\ parsed = NoParse
    /\ shown = <<>>
    /\ encoded = <<>>
    /\ reparsed = NoParse
    /\ keyPc = "none"

\* No tool has been called.
ToolIdle ==
    /\ tool = "none"
    /\ sidKind = "known"
    /\ argGood = TRUE
    /\ ptyFails = FALSE
    /\ coreErr = "none"
    /\ code = 0
    /\ toolPc = "none"

\* Nothing was read back yet.
NotLoaded == [ok |-> FALSE, events |-> <<>>]

\* No recorder is being written.
RecIdle ==
    /\ float_roundtrip = FALSE
    /\ rec_events = <<>>
    /\ cast = <<>>
    /\ loaded = NotLoaded
    /\ recPc = "none"

\* The bound of the threads at the locks.
NumLockThreads == 2
LockThreads == 1..NumLockThreads

\* The five locks of a session (session.rs:35-56) in the order of the
\* design, and the two registries: SessionManager.sessions (manager.rs, a
\* std RwLock) and TerminalMcpServer.sessions (server.rs, a tokio RwLock).
SessionLocks == <<"pty", "parser", "output_buf", "recorder", "status">>
RegistryLocks == {"manager_sessions", "server_sessions"}
Locks == {SessionLocks[k] : k \in 1..Len(SessionLocks)} \cup RegistryLocks

\* No thread is in an operation and no lock is held.
LockIdle ==
    /\ lop = [t \in LockThreads |-> "idle"]
    /\ lpc = [t \in LockThreads |-> 1]
    /\ held = [l \in Locks |-> {}]

MidIdle == BordIdle /\ KeyIdle /\ ToolIdle /\ RecIdle
FrameRows == 2         \* the rows of the grid and of the pane
FrameCols == 2         \* their columns
NumFrameThreads == 2   \* the threads at one tmux-backed session
FrameThreads == 1..NumFrameThreads

\* Grid::new (grid.rs:80-93): blank cells, the cursor at the home position.
FrameGridNew ==
    [cells |-> [r \in 1..FrameRows |-> [c \in 1..FrameCols |-> 32]],
     cursor |-> [row |-> 0, col |-> 0]]

ParseIdle ==
    /\ pstream = <<>>
    /\ pcut = 0
    /\ pwhole = FrameGridNew
    /\ psplit = FrameGridNew
    /\ parsePc = "none"

FrameIdle ==
    /\ fpane = <<>>
    /\ fgrid = FrameGridNew
    /\ fcache = <<>>
    /\ fptyLock = 0
    /\ fop = [t \in FrameThreads |-> "none"]
    /\ fpc = [t \in FrameThreads |-> "idle"]
    /\ fbytes = [t \in FrameThreads |-> <<>>]
    /\ fraw = [t \in FrameThreads |-> <<>>]

LastIdle == LockIdle /\ ParseIdle /\ FrameIdle
MoreIdle == MidIdle /\ LastIdle

\* The parts that a specification does not exercise stay as constructed.
Constructed ==
    /\ RegInit /\ IoIdle /\ GridNew /\ WaitIdle /\ TmuxIdle /\ OutIdle /\ NavIdle /\ DetIdle
    /\ MoreIdle

Init == Constructed
Next == MgrNext
Spec == Init /\ [][Next]_vars

SrvInit == Constructed
SrvSpec == SrvInit /\ [][SrvNext]_vars

\* A call that has begun runs to its return: the steps of create_session
\* after its check and of close_session after its lookup.  Whether and when a
\* caller begins a call is the caller's choice.
InFlight(t) == CreateSpawn(t) \/ CreateInsert(t) \/ CloseTerminate(t) \/ CloseRemove(t)

\* The SessionManager with every begun call completing.
LifeSpec == Init /\ [][Next]_vars /\ \A t \in Threads : WF_vars(InFlight(t))

(***************************************************************************)
(* Claims about the registry and the life cycle                            *)
(***************************************************************************)
\* The ids that have been stored in a registry: spawned and no longer waiting
\* for their insert.
Stored ==
    {i \in Ids : /\ i < nextId
                 /\ \A t \in Threads :
                      ~(pc[t] \in {"create_insert", "srv_create_insert"} /\ arg[t] = i)}

\* C1: with max_sessions = N the registry never holds more than N sessions,
\* under any interleaving of concurrent create and close calls.
C1_RegistryWithinLimit == Cardinality(sessions) <= MaxSessions

\* C2: the termination of a session precedes its removal from the map (a
\* session that has left the registry is terminated), and once close(id) has
\* returned success the id is in no registry, so that get(id) is not-found.
C2_TerminateThenRemove ==
    /\ \A i \in Stored \ (sessions \cup srv_sessions) : status[i] = "Terminated"
    /\ closedOk \cap (sessions \cup srv_sessions) = {}

\* C3: every operation on a session that has been closed fails with
\* session-terminated, also for a caller that held the handle before the close.
C3_ClosedSessionOpsFail ==
    (result.op \in SessionOps /\ result.on = "Terminated")
        => result.out = "session-terminated"

(***************************************************************************)
(* One session's I/O paths: session.rs, pty.rs, recording.rs               *)
(***************************************************************************)
IoOnly == UNCHANGED <<regVars, gridVars, waitVars, restVars, moreVars>>

RECURSIVE SumOver(_, _)
SumOver(f, S) ==
    IF S = {} THEN 0
    ELSE LET x == CHOOSE y \in S : TRUE IN f[x] + SumOver(f, S \ {x})

\* The number of bytes the current write call of caller t has sent.
SentOf(t) ==
    Cardinality({p \in 1..Len(ptyIn) : ptyIn[p][1] = t /\ ptyIn[p][2] = wn[t]})

\* first..last as a sequence
Range(lo, hi) == [i \in 1..(hi - lo + 1) |-> lo + i - 1]

\* SessionRecorder::record_input / record_output (recording.rs:102-121),
\* called only while Session.recorder is Some
Record(ev) == IF recording THEN Append(events, ev) ELSE events

\* The observer of the PTY: a transfer that happens while recording is active.
Transfer(ev) == IF recording THEN Append(actual, ev) ELSE actual

\* Session::write, up to drop(recorder) (session.rs:216-224): the input is
\* recorded under the recorder lock, which is released again.
WriteRecord(t) ==
    /\ ioPc[t] = "idle"
    /\ SumOver(wn, Threads) < MaxWrites
    /\ wn' = [wn EXCEPT ![t] = @ + 1]
    /\ events' = Record(<<"i", t, wn[t] + 1>>)
    /\ ioPc' = [ioPc EXCEPT ![t] = "w_lock"]
    /\ UNCHANGED <<ptyLock, chunk, ptyIn, produced, readUpTo, outBuf,
                   recording, actual, parserFed>>
    /\ IoOnly

\* PtyHandle::write (pty.rs:393-414): write_all sends the next byte; after
\* the last one the call returns and the pty guard of Session::write drops.
SendByte(t) ==
    /\ ptyIn' = Append(ptyIn, <<t, wn[t], SentOf(t) + 1>>)
    /\ IF SentOf(t) + 1 = WriteLen
       THEN /\ ptyLock' = 0
            /\ ioPc' = [ioPc EXCEPT ![t] = "idle"]
            /\ actual' = Transfer(<<"i", t, wn[t]>>)
       ELSE /\ ptyLock' = t
            /\ ioPc' = [ioPc EXCEPT ![t] = "w_byte"]
            /\ UNCHANGED actual

\* Session::write without the exclusion of self.pty.lock(): the call starts
\* to send while another caller holds the PTY.
WriteLockSkipped(t) ==
    /\ ioPc[t] = "w_lock"
    /\ SendByte(t)
    /\ UNCHANGED <<wn, chunk, produced, readUpTo, outBuf, recording, events,
                   parserFed>>
    /\ IoOnly

\* Session::write, self.pty.lock() and the start of pty.write
\* (session.rs:226-227)
WriteLock(t) ==
    /\ ioPc[t] = "w_lock"
    /\ ptyLock = 0
    /\ SendByte(t)
    /\ UNCHANGED <<wn, chunk, produced, readUpTo, outBuf, recording, events,
                   parserFed>>
    /\ IoOnly

\* Session::write, the rest of pty.write under the pty lock (session.rs:227)
WriteByte(t) ==
    /\ ioPc[t] = "w_byte"
    /\ SendByte(t)
    /\ UNCHANGED <<wn, chunk, produced, readUpTo, outBuf, recording, events,
                   parserFed>>
    /\ IoOnly

\* process_output with the pty guard dropped right after the read.
PoReadUnlocked(t) ==
    /\ ioPc[t] = "idle"
    /\ ptyLock = 0
    /\ \/ /\ produced > readUpTo
          /\ chunk' = [chunk EXCEPT ![t] = <<readUpTo + 1, produced>>]
          /\ readUpTo' = produced
          /\ actual' = Transfer(<<"o", readUpTo + 1, produced>>)
          /\ ioPc' = [ioPc EXCEPT ![t] = "po_buf"]
          /\ UNCHANGED ptyLock
       \/ /\ ioPc' = [ioPc EXCEPT ![t] = "idle"]
          /\ UNCHANGED <<chunk, readUpTo, actual, ptyLock>>
    /\ UNCHANGED <<wn, ptyIn, produced, outBuf, recording, events, parserFed>>
    /\ IoOnly

\* process_output, self.pty.lock() and pty.read()? (session.rs:186-188):
\* the read takes all the PTY has; an error or an empty read returns at once,
\* which drops the pty guard.
PoRead(t) ==
    /\ ioPc[t] = "idle"
    /\ ptyLock = 0
    /\ \/ /\ produced > readUpTo
          /\ chunk' = [chunk EXCEPT ![t] = <<readUpTo + 1, produced>>]
          /\ readUpTo' = produced
          /\ actual' = Transfer(<<"o", readUpTo + 1, produced>>)
          /\ ptyLock' = t
          /\ ioPc' = [ioPc EXCEPT ![t] = "po_buf"]
       \/ /\ ioPc' = [ioPc EXCEPT ![t] = "idle"]
          /\ UNCHANGED <<chunk, readUpTo, actual, ptyLock>>
    /\ UNCHANGED <<wn, ptyIn, produced, outBuf, recording, events, parserFed>>
    /\ IoOnly

\* process_output, output_buf.append (session.rs:194-196)
PoBuffer(t) ==
    /\ ioPc[t] = "po_buf"
    /\ outBuf' = outBuf + (chunk[t][2] - chunk[t][1] + 1)
    /\ ioPc' = [ioPc EXCEPT ![t] = "po_rec"]
    /\ UNCHANGED <<ptyLock, wn, chunk, ptyIn, produced, readUpTo, recording,
                   events, actual, parserFed>>
    /\ IoOnly

\* process_output, rec.record_output (session.rs:199-203)
PoRecord(t) ==
    /\ ioPc[t] = "po_rec"
    /\ events' = Record(<<"o", chunk[t][1], chunk[t][2]>>)
    /\ ioPc' = [ioPc EXCEPT ![t] = "po_parse"]
    /\ UNCHANGED <<ptyLock, wn, chunk, ptyIn, produced, readUpTo, outBuf,
                   recording, actual, parserFed>>
    /\ IoOnly

\* process_output, parser.process and the return, which drops the pty guard
\* (session.rs:206-210)
PoParse(t) ==
    /\ ioPc[t] = "po_parse"
    /\ parserFed' = parserFed \o Range(chunk[t][1], chunk[t][2])
    /\ chunk' = [chunk EXCEPT ![t] = <<0, 0>>]
    /\ ptyLock' = 0
    /\ ioPc' = [ioPc EXCEPT ![t] = "idle"]
    /\ UNCHANGED <<wn, ptyIn, produced, readUpTo, outBuf, recording, events,
                   actual>>
    /\ IoOnly

\* Session::start_recording (session.rs:610-627): an error when a recording
\* is already in progress
StartRecording(t) ==
    /\ ioPc[t] = "idle"
    /\ ~recording
    /\ recording' = TRUE
    /\ UNCHANGED <<ptyLock, ioPc, wn, chunk, ptyIn, produced, readUpTo, outBuf,
                   events, actual, parserFed>>
    /\ IoOnly

\* The child writes one more byte to its terminal.
ChildOutput ==
    /\ produced < MaxOut
    /\ produced' = produced + 1
    /\ UNCHANGED <<ptyLock, ioPc, wn, chunk, ptyIn, readUpTo, outBuf,
                   recording, events, actual, parserFed>>
    /\ IoOnly

IoInit == Constructed

IoNext ==
    \/ \E t \in Threads : WriteRecord(t)
    \/ \E t \in Threads : WriteLock(t)
    \/ \E t \in Threads : WriteByte(t)
    \/ \E t \in Threads : PoRead(t)
    \/ \E t \in Threads : PoBuffer(t)
    \/ \E t \in Threads : PoRecord(t)
    \/ \E t \in Threads : PoParse(t)
    \/ \E t \in Threads : StartRecording(t)
    \/ ChildOutput

IoSpec == IoInit /\ [][IoNext]_vars

(***************************************************************************)
(* Claims about one session's I/O                                          *)
(***************************************************************************)
\* C4: the bytes of each write call reach the PTY as one contiguous unit, so
\* that concurrent writes interleave only at whole-write boundaries, and the
\* writes of one caller reach the PTY in the order they were called.
C4_WritesAtomicInOrder ==
    /\ \A p \in 1..Len(ptyIn) :
         IF ptyIn[p][3] = 1
         THEN p > 1 => ptyIn[p - 1][3] = WriteLen
         ELSE /\ p > 1
              /\ ptyIn[p - 1] = <<ptyIn[p][1], ptyIn[p][2], ptyIn[p][3] - 1>>
    /\ \A p, q \in 1..Len(ptyIn) :
         (p < q /\ ptyIn[p][1] = ptyIn[q][1]) => ptyIn[p][2] <= ptyIn[q][2]

\* C4, its case: one caller is in the middle of its write while another
\* caller's write waits for the PTY.
C4_ConcurrentWrites ==
    \E t, u \in Threads :
        /\ t # u
        /\ ioPc[t] = "w_byte"
        /\ ioPc[u] = "w_lock"
        /\ Len(ptyIn) > 0

\* C5: process_output calls of one session never overlap, and the parser is
\* fed the output bytes in exactly the order they were read from the PTY.
C5_ProcessOutputSerialized ==
    /\ Cardinality({t \in Threads : ioPc[t] \in {"po_buf", "po_rec", "po_parse"}}) <= 1
    /\ \A i \in 1..Len(parserFed) : parserFed[i] = i
    /\ \A t \in Threads :
         ioPc[t] \in {"po_buf", "po_rec", "po_parse"}
             => chunk[t][1] = Len(parserFed) + 1

\* C5, its case: a second chunk of output is on its way to the parser after a
\* first one was fed, while another caller contends for the session.
C5_SecondChunkInFlight ==
    \E t, u \in Threads :
        /\ t # u
        /\ ioPc[t] = "po_parse"
        /\ chunk[t][1] > 1
        /\ Len(parserFed) = chunk[t][1] - 1
        /\ ioPc[u] = "w_lock"

InSeq(seq, e) == \E i \in 1..Len(seq) : seq[i] = e
PosIn(seq, e) == CHOOSE i \in 1..Len(seq) : seq[i] = e

\* C10: while recording is active the recorded events stand in the order in
\* which their bytes were written to and read from the PTY, whatever the
\* interleaving of write and process_output calls.
C10_RecordingOrderIsIoOrder ==
    \A i, j \in 1..Len(events) :
        (/\ i < j
         /\ InSeq(actual, events[i])
         /\ InSeq(actual, events[j]))
            => PosIn(actual, events[i]) < PosIn(actual, events[j])

(***************************************************************************)
(* The grid and the parser's callbacks: grid.rs, parser.rs                 *)
(***************************************************************************)
GridOnly == UNCHANGED <<regVars, ioVars, waitVars, restVars, moreVars>>

Min(a, b) == IF a < b THEN a ELSE b

\* u16::saturating_sub
SatSub(a, b) == IF a > b THEN a - b ELSE 0

Pos(r, c) == [row |-> r, col |-> c]

\* The position stored at index i of Grid.cells (grid.rs:98-105)
PosOf(i) == Pos((i - 1) \div dimensions.cols, (i - 1) % dimensions.cols)

\* Grid.cells with value v at the positions for which cell_mut returns a cell
\* (grid.rs:110-117) and which lie in the set S
CellsSet(S, v) ==
    [i \in 1..Len(cells) |-> IF PosOf(i) \in S THEN v ELSE cells[i]]

AllPos == {Pos(r, c) : r \in 0..(MaxRows - 1), c \in 0..(MaxCols - 1)}

\* Perform::print (parser.rs:297-322)
print ==
    /\ cells' = CellsSet({cursor}, 1)
    /\ cursor' = IF cursor.col + 1 >= dimensions.cols
                 THEN Pos(Min(cursor.row + 1, SatSub(dimensions.rows, 1)), 0)
                 ELSE Pos(cursor.row, cursor.col + 1)
    /\ UNCHANGED <<dimensions, saved_cursor>>
    /\ GridOnly

\* Parser::cursor_forward / cursor_backward / cursor_down / cursor_up
\* (parser.rs:49-75)
cursor_forward(n) == Pos(cursor.row, Min(cursor.col + n, SatSub(dimensions.cols, 1)))
cursor_backward(n) == Pos(cursor.row, SatSub(cursor.col, n))
cursor_down(n) == Pos(Min(cursor.row + n, SatSub(dimensions.rows, 1)), cursor.col)
cursor_up(n) == Pos(SatSub(cursor.row, n), cursor.col)

\* Perform::execute (parser.rs:325-353): BS, HT, LF, CR
execute(byte) ==
    /\ cursor' = CASE byte = 8 -> cursor_backward(1)
                   [] byte = 9 ->
                        Pos(cursor.row,
                            Min(((cursor.col \div 8) + 1) * 8, SatSub(dimensions.cols, 1)))
                   [] byte = 10 -> cursor_down(1)
                   [] byte = 13 -> Pos(cursor.row, 0)
                   [] OTHER -> cursor
    /\ UNCHANGED <<dimensions, cells, saved_cursor>>
    /\ GridOnly

\* Perform::csi_dispatch, CUU CUD CUF CUB (parser.rs:378-400)
CsiCursorMove(c, n) ==
    /\ cursor' = CASE c = "A" -> cursor_up(n)
                   [] c = "B" -> cursor_down(n)
                   [] c = "C" -> cursor_forward(n)
                   [] c = "D" -> cursor_backward(n)
    /\ UNCHANGED <<dimensions, cells, saved_cursor>>
    /\ GridOnly

\* Perform::csi_dispatch, CUP (parser.rs:403-413)
CsiCursorPosition(p1, p2) ==
    /\ cursor' = Pos(Min(SatSub(p1, 1), SatSub(dimensions.rows, 1)),
                     Min(SatSub(p2, 1), SatSub(dimensions.cols, 1)))
    /\ UNCHANGED <<dimensions, cells, saved_cursor>>
    /\ GridOnly

\* Perform::csi_dispatch, ED (parser.rs:416-461)
CsiEraseDisplay(mode) ==
    /\ cells' =
         CASE mode = 0 ->
                CellsSet({q \in AllPos : \/ q.row = cursor.row /\ q.col >= cursor.col
                                         \/ q.row > cursor.row}, 0)
           [] mode = 1 ->
                CellsSet({q \in AllPos : \/ q.row < cursor.row
                                         \/ q.row = cursor.row /\ q.col <= cursor.col}, 0)
           [] mode \in {2, 3} -> CellsSet(AllPos, 0)
           [] OTHER -> cells
    /\ UNCHANGED <<dimensions, cursor, saved_cursor>>
    /\ GridOnly

\* Perform::csi_dispatch, EL (parser.rs:464-497)
CsiEraseLine(mode) ==
    /\ cells' =
         CASE mode = 0 ->
                CellsSet({q \in AllPos : q.row = cursor.row /\ q.col >= cursor.col}, 0)
           [] mode = 1 ->
                CellsSet({q \in AllPos : q.row = cursor.row /\ q.col <= cursor.col}, 0)
           [] mode = 2 -> CellsSet({q \in AllPos : q.row = cursor.row}, 0)
           [] OTHER -> cells
    /\ UNCHANGED <<dimensions, cursor, saved_cursor>>
    /\ GridOnly

\* Grid::save_cursor, CSI s (grid.rs:213-215, parser.rs:505-507)
save_cursor ==
    /\ saved_cursor' = <<cursor>>
    /\ UNCHANGED <<dimensions, cells, cursor>>
    /\ GridOnly

\* Grid::restore_cursor, CSI u (grid.rs:218-222, parser.rs:510-512): the saved
\* cursor is taken and becomes the cursor as it is.
restore_cursor ==
    /\ cursor' = IF saved_cursor # <<>> THEN saved_cursor[1] ELSE cursor
    /\ saved_cursor' = <<>>
    /\ UNCHANGED <<dimensions, cells>>
    /\ GridOnly

\* A resize that leaves the last column of the common rectangle out.
resize_short_rows(new_rows, new_cols) ==
    /\ cells' =
         [i \in 1..(new_rows * new_cols) |->
            LET r == (i - 1) \div new_cols
                c == (i - 1) % new_cols
            IN IF r < Min(dimensions.rows, new_rows) /\ c < Min(dimensions.cols, new_cols) - 1
               THEN cells[r * dimensions.cols + c + 1]
               ELSE 0]
    /\ dimensions' = [rows |-> new_rows, cols |-> new_cols]
    /\ cursor' = Pos(IF new_rows > 0 THEN Min(cursor.row, new_rows - 1) ELSE cursor.row,
                     IF new_cols > 0 THEN Min(cursor.col, new_cols - 1) ELSE cursor.col)
    /\ UNCHANGED saved_cursor
    /\ GridOnly

\* Grid::resize (grid.rs:228-253): a fresh buffer, the common rectangle
\* copied, the cursor clamped.
resize(new_rows, new_cols) ==
    /\ cells' =
         [i \in 1..(new_rows * new_cols) |->
            LET r == (i - 1) \div new_cols
                c == (i - 1) % new_cols
            IN IF r < Min(dimensions.rows, new_rows) /\ c < Min(dimensions.cols, new_cols)
               THEN cells[r * dimensions.cols + c + 1]
               ELSE 0]
    /\ dimensions' = [rows |-> new_rows, cols |-> new_cols]
    /\ cursor' = Pos(IF new_rows > 0 THEN Min(cursor.row, new_rows - 1) ELSE cursor.row,
                     IF new_cols > 0 THEN Min(cursor.col, new_cols - 1) ELSE cursor.col)
    /\ UNCHANGED saved_cursor
    /\ GridOnly

\* Grid::clear (grid.rs:256-260)
clear ==
    /\ cells' = CellsSet(AllPos, 0)
    /\ UNCHANGED <<dimensions, cursor, saved_cursor>>
    /\ GridOnly

GridInit == Constructed

GridNext ==
    \/ print
    \/ \E byte \in {8, 9, 10, 13} : execute(byte)
    \/ \E c \in {"A", "B", "C", "D"}, n \in 0..MaxParam : CsiCursorMove(c, n)
    \/ \E p1, p2 \in 0..MaxParam : CsiCursorPosition(p1, p2)
    \/ \E mode \in 0..3 : CsiEraseDisplay(mode)
    \/ \E mode \in 0..3 : CsiEraseLine(mode)
    \/ save_cursor
    \/ restore_cursor
    \/ \E new_rows \in 1..MaxRows, new_cols \in 1..MaxCols : resize(new_rows, new_cols)
    \/ clear

GridSpec == GridInit /\ [][GridNext]_vars

(***************************************************************************)
(* Claims about the grid                                                   *)
(***************************************************************************)
\* C6: after every sequence of grid and parser operations the cell storage
\* holds rows * cols cells and the cursor lies inside the grid:
\* 0 <= row < rows and 0 <= col < cols.
C6_GridIntegrity ==
    /\ Len(cells) = dimensions.rows * dimensions.cols
    /\ cursor.row \in 0..(dimensions.rows - 1)
    /\ cursor.col \in 0..(dimensions.cols - 1)

\* C28: a resize leaves every cell (r, c) with r < min(old rows, new rows)
\* and c < min(old cols, new cols) as it was before the resize.  (Only a
\* resize changes the dimensions; one to the same dimensions copies every
\* cell.)
C28_ResizePreservesCommonCells ==
    [][dimensions' # dimensions =>
          \A r \in 0..(Min(dimensions.rows, dimensions'.rows) - 1),
             c \in 0..(Min(dimensions.cols, dimensions'.cols) - 1) :
                cells'[r * dimensions'.cols + c + 1] = cells[r * dimensions.cols + c + 1]]_vars

\* C28, its case: the grid has been resized to fewer columns than it was
\* made with, which moves the cells of every row but the first in the
\* storage, and holds a printed cell in its last row.
C28_NarrowedWithContent ==
    /\ dimensions.rows = MaxRows
    /\ dimensions.cols < MaxCols
    /\ cells[(dimensions.rows - 1) * dimensions.cols + 1] # 0

(***************************************************************************)
(* The waiter: wait.rs, snapshot.rs                                        *)
(*                                                                         *)
(* Time is counted in ticks of 10 ms.  The steps of the call take no time; *)
(* time passes while the call sleeps, and a sleep lasts at least as long   *)
(* as asked (std::thread::sleep may overshoot).                            *)
(***************************************************************************)
WaitOnly == UNCHANGED <<regVars, ioVars, gridVars, restVars, moreVars>>

\* std::thread::sleep(Duration::from_millis(10)) (wait.rs:203, snapshot.rs:123)
SleepTicks == 1

\* The timeout measured on the timer that every read of bytes resets.
TimedOutSinceActivity == idleFor >= timeout

\* wait_for: elapsed >= condition.timeout (wait.rs:173-174)
TimedOut == elapsed >= timeout

\* What Session::process_output returns to the waiter (session.rs:185-211):
\* the error of the PTY read, a positive count, or zero.
ReadOutcome == IF broken THEN "err" ELSE IF pending THEN "bytes" ELSE "none"

\* The ? after process_output: the error leaves wait_for.
ReadError ==
    /\ wresult' = "err"
    /\ readFailed' = TRUE
    /\ wpc' = "done"

\* Session::snapshot is entered: wait_for_idle sets start and last_output
\* (snapshot.rs:99-101)
EnterSnapshot(ret) ==
    /\ snapRet' = ret
    /\ snapElapsed' = 0
    /\ snapIdle' = 0
    /\ wpc' = "snap"

\* A caller starts wait_for (wait.rs:155-169)
WfCall(m, pat, to, tm) ==
    /\ wpc = "none"
    /\ wpc' = "loop"
    /\ waitMode' = m
    /\ pattern' = pat
    /\ timeout' = to
    /\ tmux' = tm
    /\ UNCHANGED <<elapsed, idleFor, snapRet, snapElapsed, snapIdle, sleepLeft,
                   pending, broken, matches, wresult, timedOut, readFailed,
                   finalSnap, gQuiet, quietDone, pollQuiet>>
    /\ WaitOnly

\* wait_for answering the expired timeout with Error::WaitTimeout.
WfLoopTimeoutRaises ==
    /\ wpc = "loop"
    /\ TimedOut
    /\ timedOut' = TRUE
    /\ wresult' = "err"
    /\ wpc' = "done"
    /\ UNCHANGED <<waitMode, pattern, timeout, tmux, elapsed, idleFor, snapRet, snapElapsed,
                   snapIdle, sleepLeft, pending, broken, matches, readFailed,
                   finalSnap, gQuiet, quietDone, pollQuiet>>
    /\ WaitOnly

\* wait_for, the timeout is found expired: the final snapshot (wait.rs:173-176)
WfLoopTimeout ==
    /\ wpc = "loop"
    /\ TimedOut
    /\ timedOut' = TRUE
    /\ EnterSnapshot("timeout")
    /\ UNCHANGED <<waitMode, pattern, timeout, tmux, elapsed, idleFor, sleepLeft, pending,
                   broken, matches, wresult, readFailed, finalSnap, gQuiet,
                   quietDone, pollQuiet>>
    /\ WaitOnly

\* The idle poll that leaves last_activity_check alone when bytes were read.
WfIdlePollNoReset ==
    /\ wpc = "loop"
    /\ ~TimedOut
    /\ waitMode = "idle"
    /\ CASE ReadOutcome = "err" ->
              /\ ReadError
              /\ UNCHANGED <<idleFor, snapRet, snapElapsed, snapIdle, sleepLeft,
                             pending, gQuiet, pollQuiet>>
         [] ReadOutcome = "bytes" ->
              /\ pending' = FALSE
              /\ gQuiet' = 0
              /\ wpc' = "idle_sleep"
              /\ sleepLeft' = SleepTicks
              /\ UNCHANGED <<idleFor, snapRet, snapElapsed, snapIdle, wresult,
                             readFailed, pollQuiet>>
         [] ReadOutcome = "none" ->
              /\ pollQuiet' = (pollQuiet \/ gQuiet >= IdleThreshold)
              /\ IF idleFor >= IdleThreshold
                 THEN /\ EnterSnapshot("idle")
                      /\ UNCHANGED sleepLeft
                 ELSE /\ wpc' = "idle_sleep"
                      /\ sleepLeft' = SleepTicks
                      /\ UNCHANGED <<snapRet, snapElapsed, snapIdle>>
              /\ UNCHANGED <<idleFor, pending, gQuiet, wresult, readFailed>>
    /\ UNCHANGED <<waitMode, pattern, timeout, tmux, elapsed, broken, matches, timedOut,
                   finalSnap, quietDone>>
    /\ WaitOnly

\* wait_for, one poll of the idle mode (wait.rs:185-204)
WfIdlePoll ==
    /\ wpc = "loop"
    /\ ~TimedOut
    /\ waitMode = "idle"
    /\ CASE ReadOutcome = "err" ->
              /\ ReadError
              /\ UNCHANGED <<idleFor, snapRet, snapElapsed, snapIdle, sleepLeft,
                             pending, gQuiet, pollQuiet>>
         [] ReadOutcome = "bytes" ->
              /\ pending' = FALSE
              /\ idleFor' = 0
              /\ gQuiet' = 0
              /\ wpc' = "idle_sleep"
              /\ sleepLeft' = SleepTicks
              /\ UNCHANGED <<snapRet, snapElapsed, snapIdle, wresult, readFailed,
                             pollQuiet>>
         [] ReadOutcome = "none" ->
              /\ pollQuiet' = (pollQuiet \/ gQuiet >= IdleThreshold)
              /\ IF idleFor >= IdleThreshold
                 THEN /\ EnterSnapshot("idle")
                      /\ UNCHANGED sleepLeft
                 ELSE /\ wpc' = "idle_sleep"
                      /\ sleepLeft' = SleepTicks
                      /\ UNCHANGED <<snapRet, snapElapsed, snapIdle>>
              /\ UNCHANGED <<idleFor, pending, gQuiet, wresult, readFailed>>
    /\ UNCHANGED <<waitMode, pattern, timeout, tmux, elapsed, broken, matches, timedOut,
                   finalSnap, quietDone>>
    /\ WaitOnly

\* wait_for, one poll of the content mode: a snapshot (wait.rs:208)
WfContentPoll ==
    /\ wpc = "loop"
    /\ ~TimedOut
    /\ waitMode = "content"
    /\ EnterSnapshot("check")
    /\ UNCHANGED <<waitMode, pattern, timeout, tmux, elapsed, idleFor, sleepLeft, pending,
                   broken, matches, wresult, timedOut, readFailed, finalSnap,
                   gQuiet, quietDone, pollQuiet>>
    /\ WaitOnly

\* wait_for, the sleep of a poll is over (wait.rs:203-204, 220)
WfWake ==
    /\ wpc \in {"idle_sleep", "poll_sleep"}
    /\ sleepLeft = 0
    /\ wpc' = "loop"
    /\ UNCHANGED <<waitMode, pattern, timeout, tmux, elapsed, idleFor, snapRet, snapElapsed,
                   snapIdle, sleepLeft, pending, broken, matches, wresult,
                   timedOut, readFailed, finalSnap, gQuiet, quietDone, pollQuiet>>
    /\ WaitOnly

\* Session::snapshot after wait_for_idle (snapshot.rs:51-92) and what wait_for
\* does with the snapshot (wait.rs:176-181, 194-199, 211-220), check_condition
\* with its Regex::new included (wait.rs:225-244).  A tmux-backed session
\* reads one fresh frame first, which may fail.
FinishSnapshot ==
    IF tmux /\ broken
    THEN /\ ReadError
         /\ UNCHANGED <<pending, matches, finalSnap, sleepLeft>>
    ELSE \E m \in (IF tmux THEN BOOLEAN ELSE {matches}) :
            /\ matches' = m
            /\ pending' = (IF tmux THEN FALSE ELSE pending)
            /\ UNCHANGED readFailed
            /\ CASE snapRet = "timeout" ->
                      /\ wresult' = "notmet"
                      /\ finalSnap' = TRUE
                      /\ wpc' = "done"
                      /\ UNCHANGED sleepLeft
                 [] snapRet = "idle" ->
                      /\ wresult' = "met"
                      /\ wpc' = "done"
                      /\ UNCHANGED <<finalSnap, sleepLeft>>
                 [] snapRet = "check" ->
                      /\ IF pattern = "invalid"
                         THEN /\ wresult' = "invalid_input"
                              /\ wpc' = "done"
                              /\ UNCHANGED sleepLeft
                         ELSE IF m
                         THEN /\ wresult' = "met"
                              /\ wpc' = "done"
                              /\ UNCHANGED sleepLeft
                         ELSE /\ wpc' = "poll_sleep"
                              /\ sleepLeft' = PollInterval
                              /\ UNCHANGED wresult
                      /\ UNCHANGED finalSnap

\* The idle timeout measured on the timer that every read of bytes resets.
IdleTimeoutPassedSinceOutput == snapIdle > IdleTimeout

\* wait_for_idle: start.elapsed() > config.idle_timeout (snapshot.rs:105)
IdleTimeoutPassed == snapElapsed > IdleTimeout

\* wait_for_idle, one iteration of its loop (snapshot.rs:103-124); when the
\* loop breaks the snapshot is completed.
SnIter ==
    /\ wpc = "snap"
    /\ IF IdleTimeoutPassed
       THEN /\ FinishSnapshot
            /\ UNCHANGED snapIdle
       ELSE CASE ReadOutcome = "err" ->
                   /\ ReadError
                   /\ UNCHANGED <<snapIdle, sleepLeft, pending, matches, finalSnap>>
              [] ReadOutcome = "bytes" ->
                   /\ pending' = FALSE
                   /\ snapIdle' = 0
                   /\ matches' \in BOOLEAN
                   /\ wpc' = "snap_sleep"
                   /\ sleepLeft' = SleepTicks
                   /\ UNCHANGED <<wresult, readFailed, finalSnap>>
              [] ReadOutcome = "none" ->
                   IF snapIdle >= IdleThreshold
                   THEN /\ FinishSnapshot
                        /\ UNCHANGED snapIdle
                   ELSE /\ wpc' = "snap_sleep"
                        /\ sleepLeft' = SleepTicks
                        /\ UNCHANGED <<snapIdle, pending, matches, wresult,
                                       readFailed, finalSnap>>
    /\ UNCHANGED <<waitMode, pattern, timeout, tmux, elapsed, idleFor, snapRet, snapElapsed,
                   broken, timedOut, gQuiet, quietDone, pollQuiet>>
    /\ WaitOnly

\* wait_for_idle, its sleep is over (snapshot.rs:123)
SnWake ==
    /\ wpc = "snap_sleep"
    /\ sleepLeft = 0
    /\ wpc' = "snap"
    /\ UNCHANGED <<waitMode, pattern, timeout, tmux, elapsed, idleFor, snapRet, snapElapsed,
                   snapIdle, sleepLeft, pending, broken, matches, wresult,
                   timedOut, readFailed, finalSnap, gQuiet, quietDone, pollQuiet>>
    /\ WaitOnly

\* 10 ms pass while the call sleeps: every Instant::elapsed() grows.
Tick ==
    /\ wpc \in {"idle_sleep", "poll_sleep", "snap_sleep"}
    /\ sleepLeft' = SatSub(sleepLeft, 1)
    /\ elapsed' = Min(elapsed + 1, timeout)
    /\ idleFor' = IF wpc = "idle_sleep" THEN Min(idleFor + 1, IdleThreshold) ELSE idleFor
    /\ snapElapsed' = IF wpc = "snap_sleep"
                      THEN Min(snapElapsed + 1, IdleTimeout + 1) ELSE snapElapsed
    /\ snapIdle' = IF wpc = "snap_sleep" THEN Min(snapIdle + 1, IdleThreshold) ELSE snapIdle
    /\ gQuiet' = IF wpc = "idle_sleep" THEN Min(gQuiet + 1, IdleThreshold) ELSE gQuiet
    /\ quietDone' = (\/ quietDone
                     \/ /\ wpc = "idle_sleep"
                        /\ gQuiet' >= IdleThreshold
                        /\ elapsed' < timeout)
    /\ UNCHANGED <<wpc, waitMode, pattern, timeout, tmux, snapRet, pending, broken, matches,
                   wresult, timedOut, readFailed, finalSnap, pollQuiet>>
    /\ WaitOnly

\* The child writes to its terminal.
PtyOutputArrives ==
    /\ wpc # "done"
    /\ ~broken
    /\ ~pending
    /\ pending' = TRUE
    /\ UNCHANGED <<wpc, waitMode, pattern, timeout, tmux, elapsed, idleFor, snapRet,
                   snapElapsed, snapIdle, sleepLeft, broken, matches, wresult,
                   timedOut, readFailed, finalSnap, gQuiet, quietDone, pollQuiet>>
    /\ WaitOnly

\* The PTY starts to fail its reads: the child is gone (pty.rs:302) or the
\* tmux session no longer exists (pty.rs:192-196).
PtyBreaks ==
    /\ wpc # "done"
    /\ ~broken
    /\ broken' = TRUE
    /\ UNCHANGED <<wpc, waitMode, pattern, timeout, tmux, elapsed, idleFor, snapRet,
                   snapElapsed, snapIdle, sleepLeft, pending, matches, wresult,
                   timedOut, readFailed, finalSnap, gQuiet, quietDone, pollQuiet>>
    /\ WaitOnly

WaitInit == Constructed

\* The steps of the call itself.
WaiterStep ==
    \/ WfLoopTimeout
    \/ WfIdlePoll
    \/ WfContentPoll
    \/ WfWake
    \/ SnIter
    \/ SnWake

WaitNext ==
    \/ \E m \in {"idle", "content"}, pat \in {"none", "valid", "invalid"},
          to \in 0..MaxTimeout, tm \in BOOLEAN : WfCall(m, pat, to, tm)
    \/ WaiterStep
    \/ Tick
    \/ PtyOutputArrives
    \/ PtyBreaks

\* The call is scheduled (its thread runs) and time goes on.
WaitSpec == WaitInit /\ [][WaitNext]_vars /\ WF_vars(WaiterStep) /\ WF_vars(Tick)

C8_MissNeverAnError ==
    (wpc = "done" /\ timedOut) => wresult = "notmet"

\* C8 as amended: a miss is answered with condition_met = false and the
\* snapshot taken at the timeout, unless a PTY read fails during that
\* snapshot; the only error the call returns is that of a failed PTY read.
C8_MissIsNotAnError ==
    /\ (wpc = "done" /\ timedOut /\ ~readFailed) => (wresult = "notmet" /\ finalSnap)
    /\ wresult = "notmet" => (timedOut /\ finalSnap)
    /\ wresult = "err" => readFailed

\* C8, its case: a content-mode call has run into its timeout and has
\* returned condition_met = false with the final snapshot.
C8_TimedOutNotMet ==
    /\ wpc = "done"
    /\ waitMode = "content"
    /\ timedOut
    /\ finalSnap
    /\ wresult = "notmet"

\* C9 as stated: in idle mode the call reports success exactly when a period
\* of at least idle_threshold with no bytes read has passed before the
\* timeout expired, and failure otherwise.
C9_IdleSuccessExactlyWhenQuiet ==
    (wpc = "done" /\ waitMode = "idle" /\ wresult \in {"met", "notmet"})
        => (wresult = "met" <=> quietDone)

\* C9 as amended: in idle mode the call reports success exactly when one of
\* its polls, begun before the timeout expired, reads no bytes at least
\* idle_threshold after the last read that returned bytes (such a period has
\* then passed before the timeout), and failure exactly when a poll finds the
\* timeout expired first.
C9_IdleSuccessAtPolls ==
    (wpc = "done" /\ waitMode = "idle" /\ wresult \in {"met", "notmet"})
        => /\ wresult = "met" <=> pollQuiet
           /\ wresult = "notmet" <=> timedOut
           /\ wresult = "met" => quietDone

\* C9, its case: a poll of an idle-mode call, begun before the timeout, has
\* found the terminal quiet for idle_threshold and the call has reported
\* success.
C9_IdleSuccess ==
    /\ wpc = "done"
    /\ waitMode = "idle"
    /\ wresult = "met"
    /\ pollQuiet
    /\ quietDone
    /\ ~timedOut

C26_InvalidPatternIsInvalidInput ==
    (wpc = "done" /\ pattern = "invalid" /\ ~readFailed) => wresult = "invalid_input"

(***************************************************************************)
(* Claims about the session status                                         *)
(***************************************************************************)
\* C11: after terminate has returned success the status of the session is
\* Terminated, and a status that is Terminated never becomes Running again.
C11_TerminatedForGood ==
    /\ [](\A t \in Threads : pc[t] = "close_remove" => status[arg[t]] = "Terminated")
    /\ [](\A i \in closedOk : status[i] = "Terminated")
    /\ [][\A i \in Ids : status[i] = "Terminated" => status'[i] = "Terminated"]_vars

\* C11, its case: a session was terminated and closed, and an operation has
\* run on it afterwards.
C11_UsedAfterTerminate ==
    /\ \E i \in closedOk : status[i] = "Terminated"
    /\ result.op \in SessionOps
    /\ result.on = "Terminated"

\* C12: the status of a session is running only while its PTY child is alive:
\* once the child has exited on its own, the status leaves Running (for Exited
\* or Terminated) without an explicit close.
C12_ExitLeavesRunning ==
    \A i \in Ids : (status[i] = "Running" /\ ~alive[i]) ~> (status[i] # "Running")

(***************************************************************************)
(* The tmux-backed read of a PtyHandle: pty.rs                             *)
(***************************************************************************)
TmuxOnly == UNCHANGED <<regVars, ioVars, gridVars, waitVars, outVars, navVars, detVars, moreVars>>

SeqsUpTo(S, n) == UNION {[1..k -> S] : k \in 0..n}

\* The bytes of a pane: a newline and a visible character.
PaneBytes == {10, 120}

\* pty.rs:224-225  the output is empty or only \n, \r, space, tab
alt_output_is_empty(out) == \A k \in 1..Len(out) : out[k] \in {10, 13, 32, 9}

\* pty.rs:212-236  capture the alternate screen, and the normal screen when
\* the alternate one shows nothing
Capture == IF alt_output_is_empty(pane_alt) THEN pane_normal ELSE pane_alt

\* pty.rs:266-267  ESC [ H before the content
content_with_home(new_content) == <<27, 91, 72>> \o new_content

\* PtyHandle::read without its store into the cache.
StoreSkipped(new_content) == last_tmux_content

\* pty.rs:261  *last_content = new_content.clone()
Store(new_content) == new_content

TmuxErr == [kind |-> "err", bytes |-> <<>>]
TmuxOk(bytes) == [kind |-> "ok", bytes |-> bytes]

\* PtyHandle::read in tmux mode (pty.rs:180-271)
TmuxRead ==
    /\ \E captured \in BOOLEAN :
        IF ~tmuxUp \/ ~captured
        THEN \* has-session or capture-pane failed (pty.rs:192-203, 221, 239-244)
             /\ tmuxRet' = TmuxErr
             /\ UNCHANGED <<last_tmux_content, prevCapture, invalidated, wasSame,
                            forcedReads>>
        ELSE LET new_content == Capture
                 cache_was_invalidated == last_tmux_content = <<>>
                 unchanged == ~cache_was_invalidated /\ new_content = last_tmux_content
             IN  /\ IF unchanged
                    THEN /\ tmuxRet' = TmuxOk(<<>>)
                         /\ UNCHANGED <<last_tmux_content, forcedReads>>
                    ELSE /\ last_tmux_content' = Store(new_content)
                         /\ tmuxRet' = TmuxOk(content_with_home(new_content))
                         /\ forcedReads' = IF new_content = prevCapture
                                           THEN Min(forcedReads + 1, 2)
                                           ELSE forcedReads
                 /\ wasSame' = (new_content = prevCapture /\ ~invalidated)
                 /\ prevCapture' = new_content
                 /\ invalidated' = FALSE
    /\ UNCHANGED <<pane_alt, pane_normal, tmuxUp>>
    /\ TmuxOnly

\* PtyHandle::invalidate_tmux_cache (pty.rs:499-505)
invalidate_tmux_cache ==
    /\ last_tmux_content' = <<>>
    /\ invalidated' = TRUE
    /\ forcedReads' = 0
    /\ UNCHANGED <<pane_alt, pane_normal, tmuxUp, tmuxRet, prevCapture, wasSame>>
    /\ TmuxOnly

\* The program in the pane draws: capture-pane prints every row of the
\* normal screen, so that one is never empty.
PaneDraws ==
    /\ tmuxUp
    /\ \E a \in SeqsUpTo(PaneBytes, AltLen),
          n \in SeqsUpTo(PaneBytes, MaxCapture) \ {<<>>} :
         /\ <<a, n>> # <<pane_alt, pane_normal>>
         /\ pane_alt' = a
         /\ pane_normal' = n
    /\ UNCHANGED <<tmuxUp, last_tmux_content, tmuxRet, prevCapture, invalidated,
                   wasSame, forcedReads>>
    /\ TmuxOnly

\* The tmux session goes away.
TmuxSessionEnds ==
    /\ tmuxUp
    /\ tmuxUp' = FALSE
    /\ UNCHANGED <<pane_alt, pane_normal, last_tmux_content, tmuxRet, prevCapture,
                   invalidated, wasSame, forcedReads>>
    /\ TmuxOnly

TmuxInit == Constructed

TmuxNext ==
    \/ TmuxRead
    \/ invalidate_tmux_cache
    \/ PaneDraws
    \/ TmuxSessionEnds

TmuxSpec == TmuxInit /\ [][TmuxNext]_vars

\* C13: a tmux-backed read returns empty exactly when the capture is
\* byte-identical to the previous capture and the cache was not invalidated
\* since; an invalidation forces one fresh read of an unchanged pane and no
\* more, after which identical captures return empty again.
C13_EmptyExactlyWhenUnchanged ==
    /\ tmuxRet.kind = "ok" => (tmuxRet.bytes = <<>> <=> wasSame)
    /\ forcedReads <= 1

\* C13, its case: after an invalidation one read of the unchanged pane has
\* returned its content, and the read after it has returned empty.
C13_ForcedOnceThenEmpty ==
    /\ tmuxRet = TmuxOk(<<>>)
    /\ forcedReads = 1
    /\ wasSame

(***************************************************************************)
(* Reading the raw output of a session: output.rs                          *)
(***************************************************************************)
OutOnly == UNCHANGED <<regVars, ioVars, gridVars, waitVars, tmuxVars, navVars, detVars, moreVars>>

\* The output bytes: two letters and BEL (7), which prints nothing.
OutBytes == {97, 98, 7}
Printable(b) == b # 7

\* The text of a byte string without its control bytes.
RECURSIVE StripAnsi(_)
StripAnsi(bytes) ==
    IF bytes = <<>> THEN <<>>
    ELSE IF Printable(Head(bytes)) THEN <<Head(bytes)>> \o StripAnsi(Tail(bytes))
    ELSE StripAnsi(Tail(bytes))

\* Parser::process (parser.rs:40-46) on a grid of one row, as [row, col]: a
\* printable byte is put into the cell at the cursor and the cursor moves on,
\* back to column 0 of the last row at the end of it (parser.rs:297-321).
RECURSIVE ParserProcess(_, _)
ParserProcess(g, bytes) ==
    IF bytes = <<>> THEN g
    ELSE IF ~Printable(Head(bytes)) THEN ParserProcess(g, Tail(bytes))
    ELSE ParserProcess([row |-> [g.row EXCEPT ![g.col + 1] = Head(bytes)],
                        col |-> IF g.col + 1 >= ScreenCols THEN 0 ELSE g.col + 1],
                       Tail(bytes))

\* str::trim_end of a line (grid.rs:150-153)
RECURSIVE trim_end(_)
trim_end(line) ==
    IF line # <<>> /\ line[Len(line)] = 32
    THEN trim_end(SubSeq(line, 1, Len(line) - 1))
    ELSE line

\* Grid::to_plain_text (grid.rs:137-160): the characters of the cells, the
\* trailing blanks of the line trimmed.
to_plain_text(row) == trim_end(row)

\* The bytes one pty.read() returns: what is there, up to its buffer.
ReadCount == Min(Len(ptyPending), ReadMax)

\* Session::process_output (session.rs:185-213): one PTY read, appended to
\* the output buffer and fed to the parser.
process_output_steps(n) ==
    /\ ptyPending' = SubSeq(ptyPending, n + 1, Len(ptyPending))
    /\ raw_buffer' = raw_buffer \o SubSeq(ptyPending, 1, n)
    /\ LET g == ParserProcess([row |-> screenRow, col |-> screenCol],
                               SubSeq(ptyPending, 1, n))
       IN  screenRow' = g.row /\ screenCol' = g.col

\* A call of process_output between two read_output calls.
process_output ==
    /\ ptyPending # <<>>
    /\ process_output_steps(ReadCount)
    /\ sincePrev' = sincePrev \o SubSeq(ptyPending, 1, ReadCount)
    /\ UNCHANGED <<last_read_pos, outRead, leftInPty>>
    /\ OutOnly

\* output.rs:49-51, 103  unread_count() > 0
HasMore(len, pos) == len - pos > 0

\* Session::read_output (output.rs:86-119)
read_output(since_last_read, include_ansi) ==
    /\ process_output_steps(ReadCount)
    /\ LET raw_bytes == IF since_last_read
                        THEN SubSeq(raw_buffer', last_read_pos + 1, Len(raw_buffer'))
                        ELSE raw_buffer'
       IN  /\ last_read_pos' = Len(raw_buffer')
           /\ outRead' = [kind |-> "read",
                          since_last_read |-> since_last_read,
                          include_ansi |-> include_ansi,
                          output |-> IF include_ansi THEN raw_bytes
                                     ELSE to_plain_text(screenRow'),
                          bytes |-> Len(raw_bytes),
                          has_more |-> HasMore(Len(raw_buffer'), last_read_pos'),
                          buffered |-> sincePrev \o SubSeq(ptyPending, 1, ReadCount)]
    /\ sincePrev' = <<>>
    /\ leftInPty' = (ptyPending' # <<>>)
    /\ OutOnly

\* The child writes a byte to its terminal.
ChildWrites(b) ==
    /\ Len(raw_buffer) + Len(ptyPending) < MaxProduced
    /\ ptyPending' = Append(ptyPending, b)
    /\ UNCHANGED <<raw_buffer, last_read_pos, screenRow, screenCol, outRead,
                   sincePrev, leftInPty>>
    /\ OutOnly

OutInit == Constructed

OutNext ==
    \/ process_output
    \/ \E s \in BOOLEAN, a \in BOOLEAN : read_output(s, a)
    \/ \E b \in OutBytes : ChildWrites(b)

OutSpec == OutInit /\ [][OutNext]_vars

\* C14: a read_output call (since last read, ANSI stripped) returns exactly
\* the stripped text that was produced since the previous read_output call,
\* and its more-available bit is set whenever unread output remains.
C14_ReadOutputExact ==
    (outRead.kind = "read" /\ outRead.since_last_read /\ ~outRead.include_ansi)
      => /\ outRead.output = StripAnsi(outRead.buffered)
         /\ leftInPty => outRead.has_more

(***************************************************************************)
(* Clicking an element: session.rs, navigation.rs, menu.rs                 *)
(***************************************************************************)
NavOnly == UNCHANGED <<regVars, ioVars, gridVars, waitVars, tmuxVars, outVars, detVars, moreVars>>

\* menu.rs:35  min_items
MinItems == 2

\* A Menu as MenuDetector reports it: ref_id menu_<row>_<col>, every item
\* with ref_id String::new() (menu.rs:100-104, 154-158, 193-197, 222).
DetectedMenus ==
    UNION {{[detected |-> TRUE, ref_id |-> Ref("menu", 0),
             items |-> [k \in 1..n |-> NoRef], selected |-> s] : s \in 0..(n - 1)}
           : n \in MinItems..MaxItems}

\* A Menu as a caller of calculate builds it, its items item_0, item_1, ...
\* (navigation.rs:165-203).
BuiltMenus ==
    UNION {{[detected |-> FALSE, ref_id |-> Ref("menu", 0),
             items |-> [k \in 1..n |-> Ref("item", k - 1)], selected |-> s]
            : s \in 0..(n - 1)}
           : n \in 1..MaxItems}

\* The refs a click may name: every item of a menu, one item too many, the
\* menu and the empty ref.
Targets == {Ref("item", k) : k \in 0..MaxItems} \cup {Ref("menu", 0), NoRef}

\* iter().position(|i| i.ref_id == target_ref), counted from 0 (navigation.rs:102-105)
position(items, target_ref) ==
    (CHOOSE k \in 1..Len(items) :
        /\ items[k] = target_ref
        /\ \A j \in 1..(k - 1) : items[j] # target_ref) - 1

Repeat(key, n) == [j \in 1..n |-> key]

\* NavigationCalculator::navigate_menu without its activation key.
navigate_menu_no_enter(items, current_selected, target_ref) ==
    LET diff == position(items, target_ref) - current_selected
    IN  IF diff > 0 THEN Repeat("Down", diff)
        ELSE IF diff < 0 THEN Repeat("Up", -diff)
        ELSE <<>>

\* NavigationCalculator::navigate_menu (navigation.rs:94-127)
navigate_menu(items, current_selected, target_ref) ==
    LET diff == position(items, target_ref) - current_selected
    IN  (IF diff > 0 THEN Repeat("Down", diff)
         ELSE IF diff < 0 THEN Repeat("Up", -diff)
         ELSE <<>>) \o <<"Enter">>

NavOk(keys) == [result |-> "ok", keys |-> keys]
NavErr(e) == [result |-> e, keys |-> <<>>]

\* NavigationCalculator::calculate (navigation.rs:60-91) on a snapshot whose
\* one element is the menu.
calculate(snapshot, target_ref) ==
    IF target_ref.type = "item"
    THEN IF \E k \in 1..Len(snapshot.items) : snapshot.items[k] = target_ref
         THEN NavOk(navigate_menu(snapshot.items, snapshot.selected, target_ref))
         ELSE NavErr("element-not-found")
    ELSE IF snapshot.ref_id = target_ref
         THEN NavErr("invalid-input")
         ELSE NavErr("element-not-found")

\* Key::to_escape_sequence with Right and Left taking each other's letter.
to_escape_sequence_left_c(key) ==
    CASE key = "Enter" -> <<13>>
      [] key = "Tab" -> <<9>>
      [] key = "Escape" -> <<27>>
      [] key = "Backspace" -> <<127>>
      [] key = "Delete" -> <<27, 91, 51, 126>>
      [] key = "Space" -> <<32>>
      [] key = "Insert" -> <<27, 91, 50, 126>>
      [] key = "Up" -> <<27, 91, 65>>
      [] key = "Down" -> <<27, 91, 66>>
      [] key = "Right" -> <<27, 91, 68>>
      [] key = "Left" -> <<27, 91, 67>>
      [] key = "Home" -> <<27, 91, 72>>
      [] key = "End" -> <<27, 91, 70>>
      [] key = "PageUp" -> <<27, 91, 53, 126>>
      [] key = "PageDown" -> <<27, 91, 54, 126>>
      [] key = "F1" -> <<27, 79, 80>>
      [] key = "F2" -> <<27, 79, 81>>
      [] key = "F3" -> <<27, 79, 82>>
      [] key = "F4" -> <<27, 79, 83>>
      [] key = "F5" -> <<27, 91, 49, 53, 126>>
      [] key = "F6" -> <<27, 91, 49, 55, 126>>
      [] key = "F7" -> <<27, 91, 49, 56, 126>>
      [] key = "F8" -> <<27, 91, 49, 57, 126>>
      [] key = "F9" -> <<27, 91, 50, 48, 126>>
      [] key = "F10" -> <<27, 91, 50, 49, 126>>
      [] key = "F11" -> <<27, 91, 50, 51, 126>>
      [] key = "F12" -> <<27, 91, 50, 52, 126>>

\* Key::to_escape_sequence, the keys without an argument (key.rs:164-191)
to_escape_sequence(key) ==
    CASE key = "Enter" -> <<13>>
      [] key = "Tab" -> <<9>>
      [] key = "Escape" -> <<27>>
      [] key = "Backspace" -> <<127>>
      [] key = "Delete" -> <<27, 91, 51, 126>>
      [] key = "Space" -> <<32>>
      [] key = "Insert" -> <<27, 91, 50, 126>>
      [] key = "Up" -> <<27, 91, 65>>
      [] key = "Down" -> <<27, 91, 66>>
      [] key = "Right" -> <<27, 91, 67>>
      [] key = "Left" -> <<27, 91, 68>>
      [] key = "Home" -> <<27, 91, 72>>
      [] key = "End" -> <<27, 91, 70>>
      [] key = "PageUp" -> <<27, 91, 53, 126>>
      [] key = "PageDown" -> <<27, 91, 54, 126>>
      [] key = "F1" -> <<27, 79, 80>>
      [] key = "F2" -> <<27, 79, 81>>
      [] key = "F3" -> <<27, 79, 82>>
      [] key = "F4" -> <<27, 79, 83>>
      [] key = "F5" -> <<27, 91, 49, 53, 126>>
      [] key = "F6" -> <<27, 91, 49, 55, 126>>
      [] key = "F7" -> <<27, 91, 49, 56, 126>>
      [] key = "F8" -> <<27, 91, 49, 57, 126>>
      [] key = "F9" -> <<27, 91, 50, 48, 126>>
      [] key = "F10" -> <<27, 91, 50, 49, 126>>
      [] key = "F11" -> <<27, 91, 50, 51, 126>>
      [] key = "F12" -> <<27, 91, 50, 52, 126>>

\* Session::click, the snapshot and the calculation (session.rs:349-356)
ClickCalculate(target_ref) ==
    /\ navPc = "idle"
    /\ navTarget' = target_ref
    /\ LET r == calculate(tst, target_ref)
       IN  /\ navKeys' = r.keys
           /\ IF r.result = "ok"
              THEN navPc' = "sending" /\ UNCHANGED navResult
              ELSE navPc' = "done" /\ navResult' = r.result
    /\ UNCHANGED <<tst, navSent, navI>>
    /\ NavOnly

\* Session::click, one turn of its loop: write the key, then the delay
\* (session.rs:359-371)
ClickWrite ==
    /\ navPc = "sending"
    /\ navSent' = navSent \o to_escape_sequence(navKeys[navI + 1])
    /\ navI' = navI + 1
    /\ IF navI + 1 = Len(navKeys)
       THEN navPc' = "done" /\ navResult' = "ok"
       ELSE UNCHANGED <<navPc, navResult>>
    /\ UNCHANGED <<tst, navTarget, navKeys>>
    /\ NavOnly

NavInit ==
    /\ RegInit /\ IoIdle /\ GridNew /\ WaitIdle /\ TmuxIdle /\ OutIdle /\ DetIdle
    /\ MoreIdle
    /\ tst \in DetectedMenus \cup BuiltMenus
    /\ NavCallIdle

NavNext ==
    \/ \E target_ref \in Targets : ClickCalculate(target_ref)
    \/ ClickWrite

NavSpec == NavInit /\ [][NavNext]_vars

RECURSIVE Encode(_)
Encode(keys) ==
    IF keys = <<>> THEN <<>> ELSE to_escape_sequence(Head(keys)) \o Encode(Tail(keys))

\* C15: for every menu item that a snapshot reports, a click with the ref_id
\* of that item on the unchanged screen succeeds and writes to the PTY the
\* encodings of the navigation keys and then of Enter.
C15_ClickOnReportedItem ==
    (/\ navPc = "done"
     /\ tst.detected
     /\ \E k \in 1..Len(tst.items) : tst.items[k] = navTarget)
      => /\ navResult = "ok"
         /\ navKeys # <<>>
         /\ navKeys[Len(navKeys)] = "Enter"
         /\ navSent = Encode(navKeys)

\* C16: for a menu whose target item is at index t and whose selected index
\* is s, calculate returns |t - s| navigation keys, Down for t > s and Up for
\* t < s, and then one Enter.
C16_MenuNavigation ==
    (/\ navPc # "idle"
     /\ navTarget.type = "item"
     /\ \E k \in 1..Len(tst.items) : tst.items[k] = navTarget)
      => LET t == position(tst.items, navTarget)
             s == tst.selected
             n == IF t > s THEN t - s ELSE s - t
         IN  /\ navResult \in {"none", "ok"}
             /\ Len(navKeys) = n + 1
             /\ navKeys[n + 1] = "Enter"
             /\ \A j \in 1..n : navKeys[j] = IF t > s THEN "Down" ELSE "Up"

\* C16, its case: the target lies two items or more above the selected one.
C16_NavigatedUp ==
    /\ navPc = "done"
    /\ navResult = "ok"
    /\ Len(navKeys) >= 3
    /\ navKeys[1] = "Up"

(***************************************************************************)
(* The detection pipeline: detection.rs, border.rs, menu.rs, assembler.rs  *)
(***************************************************************************)
DetOnly == UNCHANGED <<regVars, ioVars, gridVars, waitVars, tmuxVars, outVars, navVars, moreVars>>

\* u16 arithmetic of a release build
U16(n) == n % 65536

DetPos == (0..(DetRows - 1)) \X (0..(DetCols - 1))

\* Grid::cell(row, col).character and .attrs.reverse
Ch(g, row, col) == g[<<row, col>>].ch
Rev(g, row, col) == g[<<row, col>>].reverse

Bounds(row, col, width, height) ==
    [row |-> row, col |-> col, width |-> width, height |-> height]

\* Bounds::contains (geometry.rs:79-84)
contains(b, pos) ==
    /\ pos[1] >= b.row
    /\ pos[1] < b.row + b.height
    /\ pos[2] >= b.col
    /\ pos[2] < b.col + b.width

\* Bounds::intersects (geometry.rs:87-92)
intersects(a, b) ==
    ~(\/ a.row + a.height <= b.row
      \/ b.row + b.height <= a.row
      \/ a.col + a.width <= b.col
      \/ b.col + b.width <= a.col)

\* DetectionContext::is_region_claimed (detection.rs:59-63)
is_region_claimed(claimed, b) ==
    \E k \in 1..Len(claimed) : intersects(b, claimed[k])

\* The ASCII BoxCharSet (border.rs:68-75); the screens here are drawn with it,
\* and the corners of the other four sets are other characters.
box_set ==
    [top_left |-> "+", top_right |-> "+", bottom_left |-> "+", bottom_right |-> "+",
     horizontal |-> "-", vertical |-> "|"]

\* border.rs:140  start_row * 1000 + start_col, in u16
border_number(start_row, start_col) == U16(U16(start_row * 1000) + start_col)

\* border.rs:140  format!("border_{}", ...)
border_ref_id(start_row, start_col) == <<"border", border_number(start_row, start_col)>>

NoElement == [type |-> "none"]

\* BorderDetector::trace_border (border.rs:80-152)
trace_border(g, start_row, start_col) ==
    LET rights == {col \in (start_col + 1)..(DetCols - 1) :
                     Ch(g, start_row, col) = box_set.top_right}
        stops == {row \in (start_row + 1)..(DetRows - 1) :
                    \/ Ch(g, row, start_col) = box_set.bottom_left
                    \/ Ch(g, row, start_col) \notin {box_set.vertical, " "}}
    IN  IF rights = {} \/ stops = {} THEN NoElement
        ELSE LET right_col == CHOOSE col \in rights : \A o \in rights : col <= o
                 bottom_row == CHOOSE row \in stops : \A o \in stops : row <= o
                 width == right_col - start_col + 1
                 height == bottom_row - start_row + 1
             IN  IF Ch(g, bottom_row, start_col) # box_set.bottom_left THEN NoElement
                 ELSE IF Ch(g, bottom_row, right_col) # box_set.bottom_right THEN NoElement
                 ELSE [type |-> "border",
                       ref_id |-> border_ref_id(start_row, start_col),
                       bounds |-> Bounds(start_row, start_col, width, height)]

\* The cells of a set in the order of the scan, row by row.
RECURSIVE InScanOrder(_)
InScanOrder(S) ==
    IF S = {} THEN <<>>
    ELSE LET first == CHOOSE p \in S :
                        \A q \in S : p[1] < q[1] \/ (p[1] = q[1] /\ p[2] <= q[2])
         IN  <<first>> \o InScanOrder(S \ {first})

\* border.rs:191-195  the area of the bounds, in u16
area(e) == U16(e.bounds.width * e.bounds.height)

\* Vec::sort_by, which is stable, by area, the largest first (border.rs:191-195)
sort_by_area(borders) ==
    LET rank(i) == 1 + Cardinality({j \in 1..Len(borders) :
                        \/ area(borders[j]) > area(borders[i])
                        \/ (area(borders[j]) = area(borders[i]) /\ j < i)})
    IN  [k \in 1..Len(borders) |->
            borders[CHOOSE i \in 1..Len(borders) : rank(i) = k]]

\* border.rs:201-209  the border lies within outer
is_contained(border, outer) ==
    /\ border.bounds.row >= outer.bounds.row
    /\ border.bounds.col >= outer.bounds.col
    /\ border.bounds.row + border.bounds.height <= outer.bounds.row + outer.bounds.height
    /\ border.bounds.col + border.bounds.width <= outer.bounds.col + outer.bounds.width

\* border.rs:197-216  keep what no border kept before contains
RECURSIVE keep_outermost(_, _)
keep_outermost(filtered, borders) ==
    IF borders = <<>> THEN filtered
    ELSE IF \E k \in 1..Len(filtered) : is_contained(Head(borders), filtered[k])
         THEN keep_outermost(filtered, Tail(borders))
         ELSE keep_outermost(Append(filtered, Head(borders)), Tail(borders))

\* BorderDetector::filter_contained_borders (border.rs:189-217)
filter_contained_borders(borders) == keep_outermost(<<>>, sort_by_area(borders))

\* BorderDetector::detect (border.rs:230-256)
border_detect(g, claimed) ==
    LET corners == {p \in DetPos :
                      /\ ~is_region_claimed(claimed, Bounds(p[1], p[2], 1, 1))
                      /\ Ch(g, p[1], p[2]) = box_set.top_left
                      /\ trace_border(g, p[1], p[2]) # NoElement}
        scan == InScanOrder(corners)
    IN  filter_contained_borders(
            [k \in 1..Len(scan) |-> trace_border(g, scan[k][1], scan[k][2])])

\* menu.rs:250  the row holds something other than blanks
has_content(g, row) == \E col \in 0..(DetCols - 1) : Ch(g, row, col) # " "

\* MenuDetector::find_menu_regions (menu.rs:240-275): the runs of rows with
\* content, of min_items rows or more, over the whole width.
find_menu_regions(g) ==
    LET starts == {row \in 0..(DetRows - 1) :
                     has_content(g, row) /\ (row = 0 \/ ~has_content(g, row - 1))}
        end(start) == CHOOSE row \in (start + 1)..DetRows :
                        /\ row = DetRows \/ ~has_content(g, row)
                        /\ \A o \in (start + 1)..(row - 1) : has_content(g, o)
        long == {start \in starts : end(start) - start >= MinItems}
        order == InScanOrder({<<start, 0>> : start \in long})
    IN  [k \in 1..Len(order) |->
            Bounds(order[k][1], 0, DetCols, end(order[k][1]) - order[k][1])]

\* MenuDetector::row_has_attribute (menu.rs:53-74), for attrs.reverse
row_has_reverse(g, row, region) ==
    LET cols == region.col..(region.col + region.width - 1)
        non_space_count == Cardinality({col \in cols : Ch(g, row, col) # " "})
        match_count == Cardinality({col \in cols :
                                      Ch(g, row, col) # " " /\ Rev(g, row, col)})
    IN  non_space_count > 0 /\ match_count > non_space_count \div 2

\* menu.rs:18  prefix_markers, the two of them that are ASCII
prefix_markers == {">", "*"}

\* menu.rs:127-137  the first character of the trimmed row is a marker
row_has_marker(g, row, region) ==
    LET cols == {col \in region.col..(region.col + region.width - 1) :
                   Ch(g, row, col) # " "}
    IN  cols # {} /\ Ch(g, row, CHOOSE col \in cols : \A o \in cols : col <= o)
                        \in prefix_markers

\* The rows of a region that make an item: those with content.
item_rows(g, region) ==
    LET rows == {row \in region.row..(region.row + region.height - 1) :
                   \E col \in region.col..(region.col + region.width - 1) :
                      Ch(g, row, col) # " "}
    IN  InScanOrder({<<row, 0>> : row \in rows})

\* The items of a region, item k selected when its row is one of sel; their
\* ref_id is String::new() (menu.rs:100-104, 154-158, 193-197).
menu_items(rows, sel) ==
    [k \in 1..Len(rows) |-> [ref_id |-> NoRef, selected |-> rows[k][1] \in sel]]

NoMenu == [found |-> FALSE]
SomeMenu(selected, items) == [found |-> TRUE, selected |-> selected, items |-> items]

\* The index, from 0, of the last selected item: selected_idx = Some(items.len())
\* at every selected row (menu.rs:96-98, 150-152).
last_selected(items) ==
    (CHOOSE k \in 1..Len(items) :
        items[k].selected /\ \A j \in (k + 1)..Len(items) : ~items[j].selected) - 1

\* MenuDetector::detect_by_reverse_video (menu.rs:77-113)
detect_by_reverse_video(g, region) ==
    LET has == {row \in 0..(DetRows - 1) : row_has_reverse(g, row, region)}
        items == menu_items(item_rows(g, region), has)
    IN  IF Len(items) >= MinItems /\ \E k \in 1..Len(items) : items[k].selected
        THEN SomeMenu(last_selected(items), items)
        ELSE NoMenu

\* MenuDetector::detect_by_prefix_marker (menu.rs:116-166)
detect_by_prefix_marker(g, region) ==
    LET has == {row \in 0..(DetRows - 1) : row_has_marker(g, row, region)}
        items == menu_items(item_rows(g, region), has)
    IN  IF Len(items) >= MinItems /\ \E k \in 1..Len(items) : items[k].selected
        THEN SomeMenu(last_selected(items), items)
        ELSE NoMenu

\* MenuDetector::detect_by_cursor (menu.rs:169-206)
detect_by_cursor(g, region, cursor_pos) ==
    IF ~contains(region, cursor_pos) THEN NoMenu
    ELSE LET items == menu_items(item_rows(g, region), {cursor_pos[1]})
             hits == {k \in 1..Len(items) : items[k].selected}
         IN  IF Len(items) >= MinItems
             THEN SomeMenu(IF hits = {} THEN 0
                           ELSE (CHOOSE k \in hits : \A o \in hits : k <= o) - 1,
                           items)
             ELSE NoMenu

\* MenuDetector::detect_menu_in_region (menu.rs:209-237)
detect_menu_in_region(g, region, cursor_pos) ==
    LET r1 == detect_by_reverse_video(g, region)
        r2 == detect_by_prefix_marker(g, region)
        r3 == detect_by_cursor(g, region, cursor_pos)
        res == IF r1.found THEN r1 ELSE IF r2.found THEN r2 ELSE r3
    IN  IF res.found
        THEN [type |-> "menu",
              ref_id |-> <<"menu", region.row, region.col>>,
              bounds |-> region,
              items |-> res.items,
              selected |-> res.selected]
        ELSE NoElement

\* MenuDetector::detect (menu.rs:293-312)
RECURSIVE menu_detect_from(_, _, _, _)
menu_detect_from(regions, g, claimed, cursor_pos) ==
    IF regions = <<>> THEN <<>>
    ELSE LET region == Head(regions)
             rest == menu_detect_from(Tail(regions), g, claimed, cursor_pos)
         IN  IF is_region_claimed(claimed, region) THEN rest
             ELSE LET menu == detect_menu_in_region(g, region, cursor_pos)
                  IN  IF menu.type = "menu" THEN <<menu>> \o rest ELSE rest

menu_detect(g, claimed, cursor_pos) ==
    menu_detect_from(find_menu_regions(g), g, claimed, cursor_pos)

\* DetectionPipeline::detect, one turn of its loop (detection.rs:169-182):
\* the regions of the elements are claimed, the elements collected.
run_detector(elements, next) ==
    /\ claimed_regions' = claimed_regions \o [k \in 1..Len(elements) |-> elements[k].bounds]
    /\ all_elements' = all_elements \o elements
    /\ detPc' = next
    /\ UNCHANGED <<dgrid, dcursor, tstElements>>
    /\ DetOnly

\* The turn of BorderDetector, priority 100 (server.rs:32)
RunBorderDetector ==
    /\ detPc = "border"
    /\ run_detector(border_detect(dgrid, claimed_regions), "menu")

\* The turn of MenuDetector, priority 80 (server.rs:33)
RunMenuDetector ==
    /\ detPc = "menu"
    /\ run_detector(menu_detect(dgrid, claimed_regions, dcursor), "checkbox")

\* checkbox.rs:36-51  the two patterns, with their markers that are ASCII
checkbox_patterns ==
    <<[open |-> "[", close |-> "]", checked_markers |-> {"x", "X", "*"}, unchecked_marker |-> " "],
      [open |-> "(", close |-> ")", checked_markers |-> {"*", "o", "O"}, unchecked_marker |-> " "]>>

\* checkbox.rs:19  max_label_length
max_label_length == 60

\* CheckboxDetector::extract_label (checkbox.rs:69-91): the length of the
\* label that begins at start_pos of the row, leading blanks skipped, at
\* most max_label_length long, trailing blanks dropped, cut before [ or (.
label_len(g, row, start_pos) ==
    LET text == {col \in start_pos..(DetCols - 1) : Ch(g, row, col) # " "}
    IN  IF text = {} THEN 0
        ELSE LET label_start == CHOOSE col \in text : \A o \in text : col <= o
                 label_end == IF label_start + max_label_length < DetCols
                              THEN label_start + max_label_length ELSE DetCols
                 cuts == {col \in label_start..(label_end - 1) : Ch(g, row, col) \in {"[", "("}}
                 cut == IF cuts = {} THEN label_end
                        ELSE CHOOSE col \in cuts : \A o \in cuts : col <= o
                 kept == {col \in label_start..(cut - 1) : Ch(g, row, col) # " "}
             IN  IF kept = {} THEN 0
                 ELSE (CHOOSE col \in kept : \A o \in kept : col >= o) - label_start + 1

\* CheckboxDetector::detect_checkboxes_in_row (checkbox.rs:94-138), the
\* checkbox of pattern pat at column i of the row
checkbox_at(g, row, pat, i) ==
    LET marker == Ch(g, row, i + 1)
        len == label_len(g, row, i + 3)
        checkbox_width == 3
        total_width == IF len = 0 THEN checkbox_width ELSE checkbox_width + 1 + len
    IN  [type |-> "checkbox",
         ref_id |-> <<"checkbox", row, i>>,
         bounds |-> Bounds(row, i, total_width, 1),
         checked |-> marker \in checkbox_patterns[pat].checked_markers]

\* checkbox.rs:101-105  a checkbox of the pattern stands at column i
is_valid_checkbox(g, row, pat, i) ==
    /\ Ch(g, row, i) = checkbox_patterns[pat].open
    /\ i + 2 < DetCols
    /\ Ch(g, row, i + 2) = checkbox_patterns[pat].close
    /\ Ch(g, row, i + 1) \in checkbox_patterns[pat].checked_markers
                              \cup {checkbox_patterns[pat].unchecked_marker}

\* CheckboxDetector::detect (checkbox.rs:156-172): row by row, pattern by
\* pattern, column by column, what is not claimed.
checkbox_detect(g, claimed) ==
    LET found == {<<row, (pat - 1) * DetCols + i>> :
                    row \in {r \in 0..(DetRows - 1) : has_content(g, r)} ,
                    pat \in {1, 2}, i \in 0..(DetCols - 3)}
        valid == {f \in found :
                    LET pat == f[2] \div DetCols + 1
                        i == f[2] % DetCols
                    IN  /\ is_valid_checkbox(g, f[1], pat, i)
                        /\ ~is_region_claimed(claimed, checkbox_at(g, f[1], pat, i).bounds)}
        order == InScanOrder(valid)
    IN  [k \in 1..Len(order) |->
            checkbox_at(g, order[k][1], order[k][2] \div DetCols + 1, order[k][2] % DetCols)]

\* The turn of CheckboxDetector, priority 60 (server.rs:39)
RunCheckboxDetector ==
    /\ detPc = "checkbox"
    /\ run_detector(checkbox_detect(dgrid, claimed_regions), "assemble")

\* TSTAssembler::assemble (assembler.rs:27-48): the elements as detected
Assemble ==
    /\ detPc = "assemble"
    /\ tstElements' = all_elements
    /\ detPc' = "done"
    /\ UNCHANGED <<dgrid, dcursor, claimed_regions, all_elements>>
    /\ DetOnly

Blank == [ch |-> " ", reverse |-> FALSE]

\* The boxes that a screen may show, drawn with + - |: one that can hold a
\* menu, one that shares its right side, one at the far right of the top
\* row, and one at the left of the second row.
BoxA == Bounds(0, 0, 4, 4)
BoxB == Bounds(0, 3, 3, 4)
BoxC == Bounds(0, DetCols - 2, 2, 2)
BoxD == Bounds(1, 0, 2, 2)
Boxes == {BoxA, BoxB, BoxC, BoxD}

OnBox(b, p) ==
    /\ contains(b, p)
    /\ \/ p[1] \in {b.row, b.row + b.height - 1}
       \/ p[2] \in {b.col, b.col + b.width - 1}

BoxChar(b, p) ==
    IF p[1] \in {b.row, b.row + b.height - 1}
    THEN IF p[2] \in {b.col, b.col + b.width - 1} THEN "+" ELSE "-"
    ELSE "|"

\* The menus that a screen may show: two rows of two cells from <<top, left>>,
\* the row sel of them marked by reverse video, by a prefix or by the cursor.
Menus ==
    {[top |-> tl[1], left |-> tl[2], sel |-> s, how |-> h] :
        tl \in {<<1, 1>>, <<0, 0>>}, s \in 0..1, h \in {"reverse", "marker", "cursor"}}
NoMenuDrawn == [top |-> 0, left |-> 0, sel |-> 0, how |-> "none"]

InMenu(mn, p) ==
    /\ mn.how # "none"
    /\ p[1] \in mn.top..(mn.top + 1)
    /\ p[2] \in mn.left..(mn.left + 1)

MenuCell(mn, p) ==
    LET selected == p[1] = mn.top + mn.sel
    IN  [ch |-> IF mn.how = "marker" /\ selected /\ p[2] = mn.left THEN ">" ELSE "a",
         reverse |-> mn.how = "reverse" /\ selected]

\* The grid after the boxes and then the menu were drawn.
DrawScreen(boxes, mn) ==
    [p \in DetPos |->
        IF InMenu(mn, p) THEN MenuCell(mn, p)
        ELSE IF \E b \in boxes : OnBox(b, p)
        THEN [ch |-> IF \E b \in boxes : OnBox(b, p) /\ BoxChar(b, p) = "+" THEN "+"
                     ELSE IF \E b \in boxes : OnBox(b, p) /\ BoxChar(b, p) = "|" THEN "|"
                     ELSE "-",
              reverse |-> FALSE]
        ELSE Blank]

\* A radio button with its label, as the text xs from <<row, col>> on.
RadioText == <<"(", "o", ")", "a", "b">>
Radios ==
    {[row |-> 2, col |-> col, on |-> TRUE] : col \in {DetCols - 5, DetCols - 7}}
NoRadio == [row |-> 0, col |-> 0, on |-> FALSE]

\* The grid g after the radio button was written over it.
DrawRadio(g, rd) ==
    [p \in DetPos |->
        IF rd.on /\ p[1] = rd.row /\ p[2] \in rd.col..(rd.col + Len(RadioText) - 1)
        THEN [ch |-> RadioText[p[2] - rd.col + 1], reverse |-> FALSE]
        ELSE g[p]]

\* A snapshot begins: the grid and the cursor as the screen was drawn. The
\* radio button is written on screens with the first box or none and no menu.
DetInit ==
    /\ RegInit /\ IoIdle /\ GridNew /\ WaitIdle /\ TmuxIdle /\ OutIdle /\ NavIdle
    /\ MoreIdle
    /\ \E boxes \in SUBSET Boxes, mn \in Menus \cup {NoMenuDrawn}, rd \in Radios \cup {NoRadio} :
         /\ rd.on => (boxes \subseteq {BoxA} /\ mn = NoMenuDrawn)
         /\ dgrid = DrawRadio(DrawScreen(boxes, mn), rd)
         /\ dcursor = IF mn.how = "cursor" THEN <<mn.top + mn.sel, mn.left>>
                      ELSE <<DetRows - 1, DetCols - 1>>
    /\ detPc = "border"
    /\ DetRunIdle

DetNext ==
    \/ RunBorderDetector
    \/ RunMenuDetector
    \/ RunCheckboxDetector
    \/ Assemble

DetSpec == DetInit /\ [][DetNext]_vars

\* C17: in the TST of a snapshot all elements have pairwise distinct ref_ids.
C17_RefIdsDistinct ==
    detPc = "done" =>
        \A i, j \in 1..Len(tstElements) :
            i # j => tstElements[i].ref_id # tstElements[j].ref_id

\* RefIdGenerator (detection.rs:75-113): a counter for each element type,
\* none at first; next adds one to the counter of the type and makes the id
\* of the type and the counter.
ElementTypes == {"border", "menu", "checkbox"}
RefIdGenerator_new == [t \in ElementTypes |-> 0]
RefIdGenerator_next(counters, element_type) ==
    [counters |-> [counters EXCEPT ![element_type] = @ + 1],
     id |-> <<element_type, counters[element_type] + 1>>]

\* The ids that a generator, new at the snapshot, gives to the elements in
\* their order.
RECURSIVE GeneratedIds(_, _)
GeneratedIds(elements, counters) ==
    IF elements = <<>> THEN <<>>
    ELSE LET n == RefIdGenerator_next(counters, Head(elements).type)
         IN  <<n.id>> \o GeneratedIds(Tail(elements), n.counters)

\* C18: every ref_id of a TST is <type>_<n>, n the value of the counter of
\* the type, which grows by one with each element of the type in a detection
\* run and starts anew with each snapshot.
C18_RefIdsFromCounters ==
    detPc = "done" =>
        \A k \in 1..Len(tstElements) :
            tstElements[k].ref_id = GeneratedIds(tstElements, RefIdGenerator_new)[k]

\* C19: when the pipeline has returned, the bounds of no two of the elements
\* it returned intersect.
C19_BoundsDisjoint ==
    detPc \in {"assemble", "done"} =>
        \A i, j \in 1..Len(all_elements) :
            i # j => ~intersects(all_elements[i].bounds, all_elements[j].bounds)

\* The screen of a box with a menu inside, row sel of it in reverse video.
BoxedMenu(sel) ==
    DrawScreen({BoxA}, [top |-> 1, left |-> 1, sel |-> sel, how |-> "reverse"])

\* C20: of a menu drawn inside a bordered box, one row in reverse video, the
\* pipeline reports the border and, inside it, a menu whose selected index is
\* that of the reverse-video row.
C20_BorderAndMenuInside ==
    \A sel \in 0..1 :
        (detPc = "done" /\ dgrid = BoxedMenu(sel)) =>
            \E b, mn \in 1..Len(tstElements) :
                /\ tstElements[b].type = "border"
                /\ tstElements[b].bounds = BoxA
                /\ tstElements[mn].type = "menu"
                /\ tstElements[mn].selected = sel
                /\ contains(BoxA, <<tstElements[mn].bounds.row, tstElements[mn].bounds.col>>)

\* C21: every element that the pipeline returns has its bounds inside the
\* grid: row + height <= rows and col + width <= cols.
C21_BoundsInsideGrid ==
    detPc \in {"assemble", "done"} =>
        \A k \in 1..Len(all_elements) :
            /\ all_elements[k].bounds.row + all_elements[k].bounds.height <= DetRows
            /\ all_elements[k].bounds.col + all_elements[k].bounds.width <= DetCols

(***************************************************************************)
(* The arithmetic of BorderDetector::detect: border.rs                     *)
(***************************************************************************)
BordOnly == UNCHANGED <<regVars, ioVars, gridVars, waitVars, restVars, keyVars, toolVars, recVars, lastVars>>

\* A u16 operation whose result is n overflows: a debug build panics there,
\* a release build goes on with U16(n).
overflows(n) == n > 65535

\* border.rs:140  start_row * 1000 + start_col overflows
border_number_overflows(start_row, start_col) ==
    \/ overflows(start_row * 1000)
    \/ overflows(U16(start_row * 1000) + start_col)

\* border.rs:191-195  width * height overflows
area_overflows(e) == overflows(e.bounds.width * e.bounds.height)

\* The grids of the runs: the largest of the tested range and a larger one.
GridSizes == {<<100, 200>>, <<256, 256>>}

\* The boxes that a screen may show, drawn with one of the sets whose four
\* corners are four characters, so that only the corners at the top left
\* begin a trace: their corners and their sides.
BoxCorners == {0, 1, 66} \X {0, 1}
BoxSides == {2, 3, 256}
BoxesIn(d) ==
    {b \in {Bounds(p[1], p[2], w, h) : p \in BoxCorners, w \in BoxSides, h \in BoxSides} :
        b.row + b.height <= d[1] /\ b.col + b.width <= d[2]}

\* Two boxes on one screen: apart, or one inside the other without touching.
Within(inner, outer) ==
    /\ inner.row > outer.row
    /\ inner.col > outer.col
    /\ inner.row + inner.height < outer.row + outer.height
    /\ inner.col + inner.width < outer.col + outer.width

OnOneScreen(a, b) ==
    \/ ~intersects(a, b)
    \/ Within(a, b)
    \/ Within(b, a)

\* Box a is met before box b by the scan.
Before(a, b) == a.row < b.row \/ (a.row = b.row /\ a.col < b.col)

\* detect is called: the grid, and one or two boxes on it in the order of
\* the scan.
BordInit ==
    /\ RegInit /\ IoIdle /\ GridNew /\ WaitIdle /\ TmuxIdle /\ OutIdle /\ NavIdle /\ DetIdle
    /\ KeyIdle /\ ToolIdle /\ RecIdle /\ LastIdle
    /\ build \in {"debug", "release"}
    /\ dims \in GridSizes
    /\ \E a, b \in BoxesIn(dims) :
         /\ a = b \/ (Before(a, b) /\ OnOneScreen(a, b))
         /\ boxes_drawn = IF a = b THEN <<a>> ELSE <<a, b>>
    /\ traced = <<>>
    /\ outermost = <<>>
    /\ bordPc = "trace"

\* border.rs:239-258  the scan: every box is traced and named
TraceBorders ==
    /\ bordPc = "trace"
    /\ IF build = "debug" /\ \E k \in 1..Len(boxes_drawn) :
                                border_number_overflows(boxes_drawn[k].row, boxes_drawn[k].col)
       THEN bordPc' = "panic" /\ UNCHANGED traced
       ELSE /\ traced' = [k \in 1..Len(boxes_drawn) |->
                             [type |-> "border",
                              ref_id |-> border_ref_id(boxes_drawn[k].row, boxes_drawn[k].col),
                              bounds |-> boxes_drawn[k]]]
            /\ bordPc' = "filter"
    /\ UNCHANGED <<build, dims, boxes_drawn, outermost>>
    /\ BordOnly

\* border.rs:261  filter_contained_borders(borders); the sort compares, and
\* so computes the areas, when there are two borders or more.
FilterBorders ==
    /\ bordPc = "filter"
    /\ IF build = "debug" /\ Len(traced) >= 2
          /\ \E k \in 1..Len(traced) : area_overflows(traced[k])
       THEN bordPc' = "panic" /\ UNCHANGED outermost
       ELSE outermost' = filter_contained_borders(traced) /\ bordPc' = "done"
    /\ UNCHANGED <<build, dims, boxes_drawn, traced>>
    /\ BordOnly

BordNext ==
    \/ TraceBorders
    \/ FilterBorders

BordSpec == BordInit /\ [][BordNext]_vars

\* C22: no detector panics for a grid of 10..100 rows by 40..200 columns,
\* whatever its content.
C22_NoPanicInTestedRange ==
    (dims[1] \in 10..100 /\ dims[2] \in 40..200) => bordPc # "panic"

\* C23: after the border filtering no border that remains lies strictly
\* inside another that remains.
C23_NoBorderInsideAnother ==
    bordPc = "done" =>
        \A i, j \in 1..Len(outermost) :
            i # j => ~Within(outermost[i].bounds, outermost[j].bounds)

(***************************************************************************)
(* Key texts: key.rs                                                       *)
(***************************************************************************)
KeyOnly == UNCHANGED <<regVars, ioVars, gridVars, waitVars, restVars, bordVars, toolVars, recVars, lastVars>>

\* The keys without an argument (key.rs:11-72)
NamedKeys ==
    {"Enter", "Tab", "Escape", "Backspace", "Delete", "Space", "Insert", "Up",
     "Down", "Right", "Left", "Home", "End", "PageUp", "PageDown", "F1",
     "F2", "F3", "F4", "F5", "F6", "F7", "F8", "F9",
     "F10", "F11", "F12"}

\* Key::Up and the like; Key::Char(c), Key::Ctrl(c), Key::Alt(c);
\* Key::Shift(Box<Key>)
KeyOf(kind) == [kind |-> kind, c |-> "", inner |-> <<>>]
KeyWith(kind, c) == [kind |-> kind, c |-> c, inner |-> <<>>]
ShiftKey(inner) == [kind |-> "Shift", c |-> "", inner |-> <<inner>>]

ParseOk(key) == [ok |-> TRUE, key |-> <<key>>, err |-> "none"]
ParseErr(kind) == [ok |-> FALSE, key |-> <<>>, err |-> kind]

\* The character outside ASCII of the texts here, e with an acute accent,
\* two bytes long in UTF-8.
EAcute == "U+00E9"

\* char::len_utf8 and str::len, which counts bytes
len_utf8(c) == IF c = EAcute THEN 2 ELSE 1
RECURSIVE str_len(_)
str_len(s) == IF s = <<>> THEN 0 ELSE len_utf8(Head(s)) + str_len(Tail(s))

\* char::to_ascii_lowercase
to_ascii_lowercase(c) ==
    LET upper == <<"A", "B", "C", "D", "E", "F", "G", "H", "I", "J", "K", "L", "M", "N", "O", "P", "Q", "R", "S", "T", "U", "V", "W", "X", "Y", "Z">>
        lower == <<"a", "b", "c", "d", "e", "f", "g", "h", "i", "j", "k", "l", "m", "n", "o", "p", "q", "r", "s", "t", "u", "v", "w", "x", "y", "z">>
    IN  IF \E k \in 1..26 : upper[k] = c
        THEN lower[CHOOSE k \in 1..26 : upper[k] = c]
        ELSE c

\* str::trim, of blanks
RECURSIVE trim_start(_)
trim_start(s) == IF s # <<>> /\ Head(s) = " " THEN trim_start(Tail(s)) ELSE s
RECURSIVE str_trim_end(_)
str_trim_end(s) ==
    IF s # <<>> /\ s[Len(s)] = " " THEN str_trim_end(SubSeq(s, 1, Len(s) - 1)) ELSE s
trim(s) == str_trim_end(trim_start(s))

\* str::strip_prefix
strip_prefix(s, prefix) ==
    IF Len(s) >= Len(prefix) /\ SubSeq(s, 1, Len(prefix)) = prefix
    THEN [some |-> TRUE, rest |-> SubSeq(s, Len(prefix) + 1, Len(s))]
    ELSE [some |-> FALSE, rest |-> <<>>]

\* Display for Key, the keys without an argument (key.rs:228-254)
key_names ==
    [k \in NamedKeys |->
        CASE k = "Enter" -> <<"E", "n", "t", "e", "r">>
          [] k = "Tab" -> <<"T", "a", "b">>
          [] k = "Escape" -> <<"E", "s", "c", "a", "p", "e">>
          [] k = "Backspace" -> <<"B", "a", "c", "k", "s", "p", "a", "c", "e">>
          [] k = "Delete" -> <<"D", "e", "l", "e", "t", "e">>
          [] k = "Space" -> <<"S", "p", "a", "c", "e">>
          [] k = "Insert" -> <<"I", "n", "s", "e", "r", "t">>
          [] k = "Up" -> <<"U", "p">>
          [] k = "Down" -> <<"D", "o", "w", "n">>
          [] k = "Right" -> <<"R", "i", "g", "h", "t">>
          [] k = "Left" -> <<"L", "e", "f", "t">>
          [] k = "Home" -> <<"H", "o", "m", "e">>
          [] k = "End" -> <<"E", "n", "d">>
          [] k = "PageUp" -> <<"P", "a", "g", "e", "U", "p">>
          [] k = "PageDown" -> <<"P", "a", "g", "e", "D", "o", "w", "n">>
          [] k = "F1" -> <<"F", "1">>
          [] k = "F2" -> <<"F", "2">>
          [] k = "F3" -> <<"F", "3">>
          [] k = "F4" -> <<"F", "4">>
          [] k = "F5" -> <<"F", "5">>
          [] k = "F6" -> <<"F", "6">>
          [] k = "F7" -> <<"F", "7">>
          [] k = "F8" -> <<"F", "8">>
          [] k = "F9" -> <<"F", "9">>
          [] k = "F10" -> <<"F", "1", "0">>
          [] k = "F11" -> <<"F", "1", "1">>
          [] k = "F12" -> <<"F", "1", "2">>]

\* The names that Key::parse matches, with the key of each (key.rs:123-150)
parse_names ==
    {<<key_names[k], k>> : k \in NamedKeys} \cup
    {<<<<"R", "e", "t", "u", "r", "n">>, "Enter">>,
     <<<<"E", "s", "c">>, "Escape">>,
     <<<<"D", "e", "l">>, "Delete">>,
     <<<<"I", "n", "s">>, "Insert">>,
     <<<<"P", "g", "U", "p">>, "PageUp">>,
     <<<<"P", "g", "D", "n">>, "PageDown">>}

\* Key::parse (key.rs:96-159)
RECURSIVE parse(_)
parse(text) ==
    LET s == trim(text)
        ctrl == strip_prefix(s, <<"C", "t", "r", "l", "+">>)
        alt == strip_prefix(s, <<"A", "l", "t", "+">>)
        shift == strip_prefix(s, <<"S", "h", "i", "f", "t", "+">>)
        hits == {p \in parse_names : p[1] = s}
    IN  IF ctrl.some
        THEN IF ctrl.rest = <<>> THEN ParseErr("InvalidInput")
             ELSE ParseOk(KeyWith("Ctrl", to_ascii_lowercase(Head(ctrl.rest))))
        ELSE IF alt.some
        THEN IF alt.rest = <<>> THEN ParseErr("InvalidInput")
             ELSE ParseOk(KeyWith("Alt", Head(alt.rest)))
        ELSE IF shift.some
        THEN LET inner == parse(shift.rest)
             IN  IF inner.ok THEN ParseOk(ShiftKey(inner.key[1])) ELSE inner
        ELSE IF hits # {} THEN ParseOk(KeyOf((CHOOSE p \in hits : TRUE)[2]))
        ELSE IF str_len(s) = 1 THEN ParseOk(KeyWith("Char", Head(s)))
        ELSE ParseErr("InvalidInput")

\* Display for Key (key.rs:224-260)
RECURSIVE display(_)
display(key) ==
    CASE key.kind = "Char" -> <<key.c>>
      [] key.kind = "Ctrl" -> <<"C", "t", "r", "l", "+">> \o <<key.c>>
      [] key.kind = "Alt" -> <<"A", "l", "t", "+">> \o <<key.c>>
      [] key.kind = "Shift" -> <<"S", "h", "i", "f", "t", "+">> \o display(key.inner[1])
      [] OTHER -> key_names[key.kind]

\* char::to_string().into_bytes(), of the characters of the texts here
into_bytes(c) ==
    CASE c = "a" -> <<97>>
      [] c = "b" -> <<98>>
      [] c = "c" -> <<99>>
      [] c = "f" -> <<102>>
      [] c = "x" -> <<120>>
      [] c = "F" -> <<70>>
      [] c = "Z" -> <<90>>
      [] c = "1" -> <<49>>
      [] c = EAcute -> <<195, 169>>

\* *c as u8: the code point cut to a byte
as_u8(c) == IF c = EAcute THEN 233 ELSE into_bytes(c)[1]

\* Key::to_escape_sequence (key.rs:162-221); the subtraction of Ctrl is of
\* u8 and wraps where the build does not check it.
RECURSIVE key_to_escape_sequence(_)
key_to_escape_sequence(key) ==
    CASE key.kind = "Char" -> into_bytes(key.c)
      [] key.kind = "Ctrl" -> <<(as_u8(to_ascii_lowercase(key.c)) + 256 - 97 + 1) % 256>>
      [] key.kind = "Alt" -> <<27>> \o into_bytes(key.c)
      [] key.kind = "Shift" ->
           LET inner == key.inner[1]
           IN  CASE inner.kind = "Tab" -> <<27, 91, 90>>
                 [] inner.kind = "Up" -> <<27, 91, 49, 59, 50, 65>>
                 [] inner.kind = "Down" -> <<27, 91, 49, 59, 50, 66>>
                 [] inner.kind = "Right" -> <<27, 91, 49, 59, 50, 67>>
                 [] inner.kind = "Left" -> <<27, 91, 49, 59, 50, 68>>
                 [] OTHER -> key_to_escape_sequence(inner)
      [] OTHER -> to_escape_sequence(key.kind)

\* Key::to_escape_sequence, Ctrl (key.rs:194): the u8 subtraction
\* (*c as u8).to_ascii_lowercase() - b'a' goes below zero.
RECURSIVE ctrl_code_underflows(_)
ctrl_code_underflows(key) ==
    CASE key.kind = "Ctrl" -> as_u8(to_ascii_lowercase(key.c)) < 97
      [] key.kind = "Shift" -> ctrl_code_underflows(key.inner[1])
      [] OTHER -> FALSE

\* Whether the build checks the arithmetic: a debug build panics on the
\* overflow of an integer, a release build wraps.
OverflowChecks == BOOLEAN

\* The texts given: the name of every key, the aliases, and texts with
\* characters, prefixes, blanks and mistakes.
KeyTexts ==
    {key_names[k] : k \in NamedKeys} \cup
    {p[1] : p \in parse_names} \cup
    {<<EAcute>>,
     <<"a">>,
     <<"Z">>,
     <<" ", "a", " ">>,
     <<" ", "E", "n", "t", "e", "r", " ">>,
     <<"C", "t", "r", "l", "+", "c">>,
     <<"C", "t", "r", "l", "+", "C">>,
     <<"C", "t", "r", "l", "+", "x", "y">>,
     <<"C", "t", "r", "l", "+", "1">>,
     <<"A", "l", "t", "+", "f">>,
     <<"A", "l", "t", "+", "F">>,
     <<"S", "h", "i", "f", "t", "+", "T", "a", "b">>,
     <<"S", "h", "i", "f", "t", "+", "U", "p">>,
     <<"S", "h", "i", "f", "t", "+", "L", "e", "f", "t">>,
     <<"S", "h", "i", "f", "t", "+", "a">>,
     <<"S", "h", "i", "f", "t", "+", "C", "t", "r", "l", "+", "c">>,
     <<"S", "h", "i", "f", "t", "+", " ", "E", "n", "t", "e", "r">>,
     <<"C", "t", "r", "l", "+">>,
     <<"A", "l", "t", "+">>,
     <<"S", "h", "i", "f", "t", "+">>,
     <<"S", "h", "i", "f", "t", "+", "a", "b">>,
     <<"I", "n", "v", "a", "l", "i", "d", "K", "e", "y">>,
     <<>>,
     <<" ", " ">>,
     <<"a", "b">>,
     <<"e", "n", "t", "e", "r">>,
     <<"F", "1", "3">>,
     <<"C", "t", "r", "l">>,
     <<"c", "t", "r", "l", "+", "c">>,
     <<"E", "n", "t", "e", "r", " ", "x">>}

KeyInit ==
    /\ RegInit /\ IoIdle /\ GridNew /\ WaitIdle /\ TmuxIdle /\ OutIdle /\ NavIdle /\ DetIdle
    /\ BordIdle /\ ToolIdle /\ RecIdle /\ LastIdle
    /\ keyText \in KeyTexts
    /\ parsed = NoParse
    /\ shown = <<>>
    /\ encoded = <<>>
    /\ reparsed = NoParse
    /\ keyPc = "parse"

\* Session::press_key, the parse (session.rs:263)
ParseKey ==
    /\ keyPc = "parse"
    /\ parsed' = parse(keyText)
    /\ keyPc' = IF parsed'.ok THEN "encode" ELSE "done"
    /\ UNCHANGED <<keyText, shown, encoded, reparsed>>
    /\ KeyOnly

\* Session::press_key, the encoding (session.rs:264), and the key shown
EncodeKey ==
    /\ keyPc = "encode"
    /\ \E checked \in OverflowChecks :
         IF checked /\ ctrl_code_underflows(parsed.key[1])
         THEN /\ keyPc' = "panic"
              /\ UNCHANGED <<encoded, shown>>
         ELSE /\ encoded' = key_to_escape_sequence(parsed.key[1])
              /\ shown' = display(parsed.key[1])
              /\ keyPc' = "reparse"
    /\ UNCHANGED <<keyText, parsed, reparsed>>
    /\ KeyOnly

\* The text shown is parsed.
ReparseKey ==
    /\ keyPc = "reparse"
    /\ reparsed' = parse(shown)
    /\ keyPc' = "done"
    /\ UNCHANGED <<keyText, parsed, shown, encoded>>
    /\ KeyOnly

KeyNext ==
    \/ ParseKey
    \/ EncodeKey
    \/ ReparseKey

KeySpec == KeyInit /\ [][KeyNext]_vars

\* The bytes that the key model documents for the keys without an argument.
Documented ==
    [k \in NamedKeys |->
        CASE k = "Enter" -> <<13>>
          [] k = "Tab" -> <<9>>
          [] k = "Escape" -> <<27>>
          [] k = "Backspace" -> <<127>>
          [] k = "Delete" -> <<27, 91, 51, 126>>
          [] k = "Space" -> <<32>>
          [] k = "Insert" -> <<27, 91, 50, 126>>
          [] k = "Up" -> <<27, 91, 65>>
          [] k = "Down" -> <<27, 91, 66>>
          [] k = "Right" -> <<27, 91, 67>>
          [] k = "Left" -> <<27, 91, 68>>
          [] k = "Home" -> <<27, 91, 72>>
          [] k = "End" -> <<27, 91, 70>>
          [] k = "PageUp" -> <<27, 91, 53, 126>>
          [] k = "PageDown" -> <<27, 91, 54, 126>>
          [] k = "F1" -> <<27, 79, 80>>
          [] k = "F2" -> <<27, 79, 81>>
          [] k = "F3" -> <<27, 79, 82>>
          [] k = "F4" -> <<27, 79, 83>>
          [] k = "F5" -> <<27, 91, 49, 53, 126>>
          [] k = "F6" -> <<27, 91, 49, 55, 126>>
          [] k = "F7" -> <<27, 91, 49, 56, 126>>
          [] k = "F8" -> <<27, 91, 49, 57, 126>>
          [] k = "F9" -> <<27, 91, 50, 48, 126>>
          [] k = "F10" -> <<27, 91, 50, 49, 126>>
          [] k = "F11" -> <<27, 91, 50, 51, 126>>
          [] k = "F12" -> <<27, 91, 50, 52, 126>>]

\* C24: for every named key K of the documented list, the display text of K
\* parses to K again, and the encoding of K is the byte sequence documented
\* for K.
C24_KeyRoundTrip ==
    (keyPc = "done" /\ parsed.ok /\ parsed.key[1].kind \in NamedKeys) =>
        /\ reparsed = ParseOk(parsed.key[1])
        /\ encoded = Documented[parsed.key[1].kind]

\* C24, its case: an alias gave the key, whose name was shown and parsed.
C24_AliasShownAndParsed ==
    /\ keyPc = "done"
    /\ keyText = <<"P", "g", "D", "n">>
    /\ shown = <<"P", "a", "g", "e", "D", "o", "w", "n">>
    /\ reparsed = ParseOk(KeyOf("PageDown"))
    /\ encoded = <<27, 91, 54, 126>>

\* The text is none of a prefixed key, a name or alias, a single character.
AnythingElse(text) ==
    LET s == trim(text)
    IN  /\ ~strip_prefix(s, <<"C", "t", "r", "l", "+">>).some
        /\ ~strip_prefix(s, <<"A", "l", "t", "+">>).some
        /\ ~strip_prefix(s, <<"S", "h", "i", "f", "t", "+">>).some
        /\ s \notin {p[1] : p \in parse_names}
        /\ Len(s) # 1

\* C25: a key text that is not a key with a Ctrl+, Alt+ or Shift+ prefix, a
\* named key or alias, or a single character fails to parse, with the error
\* kind invalid-key.
C25_UnknownKeyIsInvalidKey ==
    (keyPc # "parse" /\ AnythingElse(keyText)) =>
        (~parsed.ok /\ parsed.err = "InvalidKey")

(***************************************************************************)
(* The codes of the tool errors: protocol/server.rs                        *)
(*                                                                         *)
(* One call of a tool that names a session.  What the session does is      *)
(* taken by its outcome: the Error it returns, in the order in which the   *)
(* session's code meets the causes.                                        *)
(***************************************************************************)
ToolOnly == UNCHANGED <<regVars, ioVars, gridVars, waitVars, restVars, bordVars, keyVars, recVars, lastVars>>

\* ErrorCode(-32602) and ErrorCode(-32603) (server.rs:84, 140)
INVALID_PARAMS == 0 - 32602
INTERNAL_ERROR == 0 - 32603

\* The tools whose parameters name a session (server.rs:232, 397, 474, 526,
\* 573, 635)
Tools == {"close", "type", "press_key", "resize", "click", "wait_for"}

\* The tools with a parameter that can be wrong beside the session id: the
\* key, the ref_id, the text pattern.
ToolsWithArg == {"press_key", "click", "wait_for"}

ToolInit ==
    /\ RegInit /\ IoIdle /\ GridNew /\ WaitIdle /\ TmuxIdle /\ OutIdle /\ NavIdle /\ DetIdle
    /\ BordIdle /\ KeyIdle /\ RecIdle /\ LastIdle
    /\ tool \in Tools
    /\ sidKind \in {"malformed", "unknown", "known"}
    /\ argGood \in BOOLEAN
    /\ tool \notin ToolsWithArg => argGood
    /\ ptyFails \in BOOLEAN
    /\ coreErr = "none"
    /\ code = 0
    /\ toolPc = "lookup"

\* The answer of the handler to what the session returned: map_err with
\* ErrorCode(-32603) (server.rs:409-416, 486-493, 537-544, 600-607, 674-681)
Answer(err) ==
    /\ coreErr' = err
    /\ code' = IF err = "none" THEN 0 ELSE INTERNAL_ERROR
    /\ toolPc' = "done"
    /\ UNCHANGED <<tool, sidKind, argGood, ptyFails>>
    /\ ToolOnly

\* TerminalMcpServer::get_session at the head of a handler (server.rs:78-97)
GetSessionOfTool ==
    /\ toolPc = "lookup"
    /\ tool # "close"
    /\ IF sidKind = "known"
       THEN /\ toolPc' = "call"
            /\ UNCHANGED code
       ELSE /\ toolPc' = "done"
            /\ code' = INVALID_PARAMS
    /\ UNCHANGED <<tool, sidKind, argGood, ptyFails, coreErr>>
    /\ ToolOnly

\* terminal_session_close (server.rs:232-280): the error of terminate is
\* logged and the call succeeds.
terminal_session_close ==
    /\ toolPc = "lookup"
    /\ tool = "close"
    /\ toolPc' = "done"
    /\ code' = IF sidKind = "known" THEN 0 ELSE INVALID_PARAMS
    /\ UNCHANGED <<tool, sidKind, argGood, ptyFails, coreErr>>
    /\ ToolOnly

\* terminal_type (server.rs:397-416): Session::write
terminal_type ==
    /\ toolPc = "call"
    /\ tool = "type"
    /\ Answer(IF ptyFails THEN "PtyError" ELSE "none")

\* terminal_press_key (server.rs:474-500): Session::press_key parses the
\* key, then writes (session.rs:262-266); the Key::parse of the handler
\* comes after it and meets only keys that parsed.
terminal_press_key ==
    /\ toolPc = "call"
    /\ tool = "press_key"
    /\ Answer(IF ~argGood THEN "InvalidInput"
              ELSE IF ptyFails THEN "PtyError" ELSE "none")

\* terminal_session_resize (server.rs:526-544): PtyHandle::resize
terminal_session_resize ==
    /\ toolPc = "call"
    /\ tool = "resize"
    /\ Answer(IF ptyFails THEN "PtyError" ELSE "none")

\* terminal_click (server.rs:573-607): Session::click takes a snapshot,
\* looks the ref_id up, writes the keys (session.rs:351-362)
terminal_click ==
    /\ toolPc = "call"
    /\ tool = "click"
    /\ Answer(IF ptyFails THEN "PtyError"
              ELSE IF ~argGood THEN "ElementNotFound" ELSE "none")

\* terminal_wait_for (server.rs:635-681), a text condition with a timeout
\* above 0: Session::wait_for takes a snapshot, then compiles the pattern
\* (wait.rs:208-211, 228-230)
terminal_wait_for ==
    /\ toolPc = "call"
    /\ tool = "wait_for"
    /\ Answer(IF ptyFails THEN "PtyError"
              ELSE IF ~argGood THEN "InvalidInput" ELSE "none")

ToolNext ==
    \/ GetSessionOfTool
    \/ terminal_session_close
    \/ terminal_type
    \/ terminal_press_key
    \/ terminal_session_resize
    \/ terminal_click
    \/ terminal_wait_for

ToolSpec == ToolInit /\ [][ToolNext]_vars

\* The errors of the session that the caller's input causes, and those of
\* the run.
CallerErrors == {"InvalidInput", "ElementNotFound"}
RuntimeErrors == {"PtyError"}

\* C27: at the tool boundary every failure caused by the caller's input (an
\* unknown or malformed session id, a key that does not parse, an unknown
\* ref_id, an invalid pattern) is answered with the invalid-params code, and
\* only failures of the run are answered with the internal-error code.
C27_CallerErrorsAreInvalidParams ==
    toolPc = "done" =>
        /\ sidKind # "known" => code = INVALID_PARAMS
        /\ coreErr \in CallerErrors => code = INVALID_PARAMS
        /\ code = INTERNAL_ERROR => coreErr \in RuntimeErrors

(***************************************************************************)
(* The recording as text: recording.rs                                     *)
(*                                                                         *)
(* A text is a sequence of characters; a number is one element of it, the  *)
(* decimal that serde_json writes.  An f64 is named by the shortest        *)
(* decimal that reads back as it, which is the decimal serde_json writes.  *)
(***************************************************************************)
RecOnly == UNCHANGED <<regVars, ioVars, gridVars, waitVars, restVars, bordVars, keyVars, toolVars, lastVars>>

Quote == "\""
Backslash == "\\"
LF == "\n"
CR == "\r"

\* The moments at which events are recorded, <<seconds, nanoseconds>> since
\* start_time, in their order.
Instants == <<<<0, 0>>, <<0, 500000000>>, <<1, 41000123>>, <<1, 41000124>>>>

\* Duration::as_secs_f64 (recording.rs:91, 101): secs as f64 + nanos as f64
\* / 1e9, two roundings; of <<1, 41000123>> it is the f64 below 1.041000123.
as_secs_f64(d) ==
    CASE d = <<0, 0>> -> "0.0"
      [] d = <<0, 500000000>> -> "0.5"
      [] d = <<1, 41000123>> -> "1.0410001229999999"
      [] d = <<1, 41000124>> -> "1.041000124"

\* The decimals of this model.
Decimals == {"0.0", "0.5", "1.0410001229999999", "1.041000123", "1.041000124"}

\* serde_json reads a decimal without float_roundtrip: the digits become an
\* integer, the integer an f64 (rounded above 2^53), and that is divided by
\* the power of ten (rounded again).  10410001229999999 becomes
\* 10410001230000000, and divided by 1e16 the f64 nearest to 1.041000123.
f64_from_parts(decimal) ==
    IF decimal = "1.0410001229999999" THEN "1.041000123" ELSE decimal

\* serde_json::from_str of a number and Value::as_f64 (recording.rs:224, 229)
as_f64(decimal) == IF float_roundtrip THEN decimal ELSE f64_from_parts(decimal)

\* serde_json writes a string: the characters that it escapes
escape_char(c) ==
    CASE c = Quote -> <<Backslash, Quote>>
      [] c = Backslash -> <<Backslash, Backslash>>
      [] c = LF -> <<Backslash, "n">>
      [] c = CR -> <<Backslash, "r">>
      [] OTHER -> <<c>>

RECURSIVE escape(_)
escape(s) == IF s = <<>> THEN <<>> ELSE escape_char(Head(s)) \o escape(Tail(s))

json_string(s) == <<Quote>> \o escape(s) \o <<Quote>>

\* The header line, taken whole.
HeaderLine == <<"{header}">>

\* serde_json::json!([event.time, event.event_type, event.data]) written
\* (recording.rs:182-183)
event_line(e) ==
    <<"[", e.time, ",">> \o json_string(e.event_type) \o <<",">>
        \o json_string(e.data) \o <<"]">>

\* SessionRecorder::save_to_writer and to_string (recording.rs:174-196)
RECURSIVE event_lines(_)
event_lines(evs) ==
    IF evs = <<>> THEN <<>>
    ELSE event_line(Head(evs)) \o <<LF>> \o event_lines(Tail(evs))

to_string(evs) == HeaderLine \o <<LF>> \o event_lines(evs)

\* str::lines: the text cut at every line feed, a carriage return before it
\* dropped, no empty line after the last line feed
RECURSIVE lines_from(_, _)
lines_from(s, line) ==
    IF s = <<>> THEN (IF line = <<>> THEN <<>> ELSE <<line>>)
    ELSE IF Head(s) = LF
         THEN <<(IF line # <<>> /\ line[Len(line)] = CR
                 THEN SubSeq(line, 1, Len(line) - 1) ELSE line)>>
              \o lines_from(Tail(s), <<>>)
         ELSE lines_from(Tail(s), Append(line, Head(s)))

lines(s) == lines_from(s, <<>>)

\* serde_json reads a string: from the character after the opening quote at
\* j to the closing quote, escapes undone; next is the place after it.
RECURSIVE read_string_from(_, _, _)
read_string_from(s, j, acc) ==
    IF j > Len(s) THEN [ok |-> FALSE, val |-> <<>>, next |-> j]
    ELSE IF s[j] = Quote THEN [ok |-> TRUE, val |-> acc, next |-> j + 1]
    ELSE IF s[j] = Backslash
         THEN IF j + 1 > Len(s) THEN [ok |-> FALSE, val |-> <<>>, next |-> j]
              ELSE read_string_from(s, j + 2,
                     Append(acc, CASE s[j + 1] = "n" -> LF
                                   [] s[j + 1] = "r" -> CR
                                   [] OTHER -> s[j + 1]))
    ELSE IF s[j] \in {LF, CR} THEN [ok |-> FALSE, val |-> <<>>, next |-> j]
    ELSE read_string_from(s, j + 1, Append(acc, s[j]))

read_string(s, i) ==
    IF i <= Len(s) /\ s[i] = Quote THEN read_string_from(s, i + 1, <<>>)
    ELSE [ok |-> FALSE, val |-> <<>>, next |-> i]

RecordEvent(time, event_type, data) ==
    [time |-> time, event_type |-> event_type, data |-> data]

\* One line of events read (recording.rs:224-233): an array of a number and
\* two strings
read_event(line) ==
    LET kind == read_string(line, 4)
        data == read_string(line, kind.next + 1)
    IN  IF /\ Len(line) >= 3
           /\ line[1] = "["
           /\ line[2] \in Decimals
           /\ line[3] = ","
           /\ kind.ok
           /\ kind.next <= Len(line)
           /\ line[kind.next] = ","
           /\ data.ok
           /\ data.next = Len(line)
           /\ line[data.next] = "]"
        THEN [ok |-> TRUE, event |-> RecordEvent(as_f64(line[2]), kind.val, data.val)]
        ELSE [ok |-> FALSE, event |-> RecordEvent("0.0", <<>>, <<>>)]

\* FromStr for SessionRecorder (recording.rs:207-247)
from_str(content) ==
    LET ls == lines(content)
        evs == [k \in 1..(Len(ls) - 1) |-> read_event(ls[k + 1])]
    IN  IF ls = <<>> \/ ls[1] # HeaderLine THEN NotLoaded
        ELSE IF \E k \in 1..Len(evs) : ~evs[k].ok THEN NotLoaded
        ELSE [ok |-> TRUE, events |-> [k \in 1..Len(evs) |-> evs[k].event]]

\* The most events of a recorder.
MaxEvents == 2

\* What the PTY wrote or the caller typed, lossy-decoded: texts with the
\* characters that the format gives a meaning to.
DataTexts ==
    {<<>>, <<"a">>, <<Quote>>, <<Backslash, "n">>, <<LF>>, <<"a", CR, LF>>,
     <<"]", ",">>, <<Quote, ",", Quote>>}

\* SessionRecorder::record_output and record_input (recording.rs:90-107)
RecordedEvents ==
    {RecordEvent(time, kind, data) :
        time \in {as_secs_f64(Instants[k]) : k \in 1..Len(Instants)},
        kind \in {<<"o">>, <<"i">>},
        data \in DataTexts}

\* The place of a time among the moments.
InstantOf(time) == CHOOSE k \in 1..Len(Instants) : as_secs_f64(Instants[k]) = time

RecInit ==
    /\ RegInit /\ IoIdle /\ GridNew /\ WaitIdle /\ TmuxIdle /\ OutIdle /\ NavIdle /\ DetIdle
    /\ BordIdle /\ KeyIdle /\ ToolIdle /\ LastIdle
    /\ float_roundtrip \in BOOLEAN
    /\ \E n \in 0..MaxEvents :
          /\ rec_events \in [1..n -> RecordedEvents]
          /\ \A k \in 1..(n - 1) :
                InstantOf(rec_events[k].time) <= InstantOf(rec_events[k + 1].time)
    /\ cast = <<>>
    /\ loaded = NotLoaded
    /\ recPc = "save"

\* recorder.to_string() (recording.rs:192-196)
SaveToString ==
    /\ recPc = "save"
    /\ cast' = to_string(rec_events)
    /\ recPc' = "load"
    /\ UNCHANGED <<float_roundtrip, rec_events, loaded>>
    /\ RecOnly

\* SessionRecorder::from_str(&serialized) (recording.rs:207-247)
LoadFromStr ==
    /\ recPc = "load"
    /\ loaded' = from_str(cast)
    /\ recPc' = "done"
    /\ UNCHANGED <<float_roundtrip, rec_events, cast>>
    /\ RecOnly

RecNext ==
    \/ SaveToString
    \/ LoadFromStr

RecSpec == RecInit /\ [][RecNext]_vars

\* C29: the text of a recorder read back gives an event stream equal to the
\* recorder's: as many events, in the same order, with the same times, kinds
\* and data.
C29_RecordingRoundTrip ==
    recPc = "done" => (loaded.ok /\ loaded.events = rec_events)

(***************************************************************************)
(* The locks: session.rs, snapshot.rs, output.rs, manager.rs, server.rs    *)
(*                                                                         *)
(* An operation is the sequence of its steps at the locks: a Mutex locked  *)
(* or a guard dropped, an RwLock read or written, a sleep, a read of the   *)
(* PTY that returns bytes or none.  The session is backed by tmux, the     *)
(* mode in which the server creates sessions unless told otherwise.  The   *)
(* locks inside PtyHandle are taken and dropped within one call made under *)
(* the pty lock and are part of that step.                                 *)
(***************************************************************************)
LockOnly == UNCHANGED <<regVars, ioVars, gridVars, waitVars, restVars, midVars, parseVars, frameVars>>

I(kind, lock) == <<kind, lock>>

\* A process_output that keeps the parser locked while it records.
steps_process_output_nested ==
    <<I("lock", "pty"), I("pty_read", "pty"),
      I("lock", "output_buf"), I("unlock", "output_buf"),
      I("lock", "parser"),
      I("lock", "recorder"), I("unlock", "recorder"),
      I("unlock", "parser"),
      I("unlock", "pty")>>

\* Session::process_output (session.rs:185-211); with no bytes read the pty
\* guard is dropped at once.
steps_process_output ==
    <<I("lock", "pty"), I("pty_read", "pty"),
      I("lock", "output_buf"), I("unlock", "output_buf"),
      I("lock", "recorder"), I("unlock", "recorder"),
      I("lock", "parser"), I("unlock", "parser"),
      I("unlock", "pty")>>

\* Session::write (session.rs:216-228)
steps_write ==
    <<I("lock", "recorder"), I("unlock", "recorder"),
      I("lock", "pty"), I("unlock", "pty")>>

\* Session::resize (session.rs:231-243)
steps_resize ==
    <<I("lock", "pty"), I("lock", "parser"), I("unlock", "parser"), I("unlock", "pty")>>

\* Session::status (session.rs:151-153)
steps_status == <<I("lock", "status"), I("unlock", "status")>>

\* Session::terminate (session.rs:377-396) with PtyHandle::kill of a tmux
\* session, which sleeps 100 ms (pty.rs:585), and set_status, which locks
\* status twice (session.rs:157-158)
steps_terminate ==
    <<I("lock", "pty"), I("sleep", "kill")>> \o steps_status \o steps_status
        \o <<I("unlock", "pty")>>

\* Session::start_recording (session.rs:610-627), no recording in progress
steps_start_recording ==
    <<I("lock", "recorder"), I("lock", "parser"), I("unlock", "parser"),
      I("unlock", "recorder")>>

\* Session::stop_recording (session.rs:633-636)
steps_stop_recording == <<I("lock", "recorder"), I("unlock", "recorder")>>

\* Session::wait_for_idle, one iteration that goes on (snapshot.rs:103-124)
steps_wait_for_idle == steps_process_output \o <<I("sleep", "idle")>>

\* Session::snapshot (snapshot.rs:39-93)
steps_snapshot ==
    steps_wait_for_idle
        \o <<I("lock", "pty"), I("unlock", "pty"),
             I("lock", "parser"), I("unlock", "parser"),
             I("lock", "pty"), I("unlock", "pty")>>
        \o steps_process_output
        \o <<I("lock", "parser"), I("unlock", "parser")>>

\* Session::read_output without ANSI codes (output.rs:86-120)
steps_read_output ==
    steps_process_output
        \o <<I("lock", "output_buf"), I("unlock", "output_buf"),
             I("lock", "parser"), I("unlock", "parser")>>

\* Session::press_key in visual mode (session.rs:262-276)
steps_press_key == steps_write \o <<I("sleep", "key")>>

\* SessionManager::create_session (manager.rs:53-81)
steps_create_session ==
    <<I("read", "manager_sessions"), I("unlock", "manager_sessions"),
      I("write", "manager_sessions"), I("unlock", "manager_sessions")>>

\* SessionManager::list_sessions (manager.rs:93-104)
steps_list_sessions ==
    <<I("read", "manager_sessions")>> \o steps_status
        \o <<I("unlock", "manager_sessions")>>

\* SessionManager::close_session (manager.rs:107-117)
steps_close_session ==
    <<I("read", "manager_sessions"), I("unlock", "manager_sessions")>>
        \o steps_terminate
        \o <<I("write", "manager_sessions"), I("unlock", "manager_sessions")>>

\* TerminalMcpServer::terminal_session_close (server.rs:232-280)
steps_terminal_session_close ==
    <<I("write", "server_sessions")>> \o steps_terminate
        \o <<I("unlock", "server_sessions")>>

\* TerminalMcpServer::get_session and the handler's call (server.rs:78-97,
\* 407-409)
steps_terminal_type ==
    <<I("read", "server_sessions"), I("unlock", "server_sessions")>> \o steps_write

Operations ==
    {"process_output", "write", "resize", "terminate", "start_recording",
     "stop_recording", "snapshot", "read_output", "press_key",
     "create_session", "list_sessions", "close_session",
     "terminal_session_close", "terminal_type"}

Steps(op) ==
    CASE op = "process_output" -> steps_process_output
      [] op = "write" -> steps_write
      [] op = "resize" -> steps_resize
      [] op = "terminate" -> steps_terminate
      [] op = "start_recording" -> steps_start_recording
      [] op = "stop_recording" -> steps_stop_recording
      [] op = "snapshot" -> steps_snapshot
      [] op = "read_output" -> steps_read_output
      [] op = "press_key" -> steps_press_key
      [] op = "create_session" -> steps_create_session
      [] op = "list_sessions" -> steps_list_sessions
      [] op = "close_session" -> steps_close_session
      [] op = "terminal_session_close" -> steps_terminal_session_close
      [] op = "terminal_type" -> steps_terminal_type
      [] OTHER -> <<>>

\* The step a thread is at; none when it is idle.
NextStep(t) ==
    IF lop[t] # "idle" /\ lpc[t] <= Len(Steps(lop[t]))
    THEN Steps(lop[t])[lpc[t]] ELSE I("none", "none")

\* The locks a thread holds.
HeldBy(t) == {l \in Locks : \E h \in held[l] : h[1] = t}

LockInit ==
    /\ RegInit /\ IoIdle /\ GridNew /\ WaitIdle /\ TmuxIdle /\ OutIdle /\ NavIdle /\ DetIdle
    /\ MidIdle /\ ParseIdle /\ FrameIdle
    /\ LockIdle

\* A thread calls an operation.
Call(t, op) ==
    /\ lop[t] = "idle"
    /\ lop' = [lop EXCEPT ![t] = op]
    /\ lpc' = [lpc EXCEPT ![t] = 1]
    /\ UNCHANGED held
    /\ LockOnly

\* The place after step k: the operation is over after its last step.
Advance(t, k) ==
    IF k > Len(Steps(lop[t]))
    THEN /\ lop' = [lop EXCEPT ![t] = "idle"]
         /\ lpc' = [lpc EXCEPT ![t] = 1]
    ELSE /\ lpc' = [lpc EXCEPT ![t] = k]
         /\ UNCHANGED lop

\* Mutex::lock and RwLock::write: granted when nobody holds the lock, the
\* caller included.
LockExclusive(t) ==
    /\ NextStep(t)[1] \in {"lock", "write"}
    /\ held[NextStep(t)[2]] = {}
    /\ held' = [held EXCEPT ![NextStep(t)[2]] = {<<t, "x">>}]
    /\ Advance(t, lpc[t] + 1)
    /\ LockOnly

\* RwLock::read: granted when nobody writes.
LockShared(t) ==
    /\ NextStep(t)[1] = "read"
    /\ \A h \in held[NextStep(t)[2]] : h[2] = "r"
    /\ held' = [held EXCEPT ![NextStep(t)[2]] = @ \cup {<<t, "r">>}]
    /\ Advance(t, lpc[t] + 1)
    /\ LockOnly

\* A guard is dropped.
Unlock(t) ==
    /\ NextStep(t)[1] = "unlock"
    /\ held' = [held EXCEPT ![NextStep(t)[2]] = {h \in @ : h[1] # t}]
    /\ Advance(t, lpc[t] + 1)
    /\ LockOnly

\* std::thread::sleep returns.
SleepOver(t) ==
    /\ NextStep(t)[1] = "sleep"
    /\ Advance(t, lpc[t] + 1)
    /\ UNCHANGED held
    /\ LockOnly

\* pty.read() under the pty lock: with bytes the operation goes on, with
\* none it goes to the end of process_output (session.rs:187-190, 210).
PtyRead(t, bytes) ==
    /\ NextStep(t)[1] = "pty_read"
    /\ Advance(t, IF bytes THEN lpc[t] + 1
                  ELSE CHOOSE k \in (lpc[t] + 1)..Len(Steps(lop[t])) :
                          /\ Steps(lop[t])[k] = I("unlock", "pty")
                          /\ \A j \in (lpc[t] + 1)..(k - 1) :
                                Steps(lop[t])[j] # I("unlock", "pty"))
    /\ UNCHANGED held
    /\ LockOnly

LockNext ==
    \E t \in LockThreads :
        \/ \E op \in Operations : Call(t, op)
        \/ LockExclusive(t)
        \/ LockShared(t)
        \/ Unlock(t)
        \/ SleepOver(t)
        \/ \E bytes \in BOOLEAN : PtyRead(t, bytes)

LockSpec == LockInit /\ [][LockNext]_vars

\* The place of a session lock in the order of the design; 0 for a registry.
Rank(l) == IF l \in RegistryLocks THEN 0
           ELSE CHOOSE k \in 1..Len(SessionLocks) : SessionLocks[k] = l

\* C31: an operation that holds more than one lock of the session takes them
\* in the order pty, parser, output_buf, recorder, status: no thread takes a
\* lock that is earlier in this order than one it holds.
C31_LocksTakenInOrder ==
    [][\A t \in LockThreads, l \in Locks :
          (l \notin HeldBy(t) /\ l \in HeldBy(t)' /\ Rank(l) > 0) =>
              \A k \in HeldBy(t) : Rank(k) < Rank(l)]_vars

\* C32: the lock of a registry is never held by a thread that is inside a
\* call into a session: that holds a lock of the session, waits for one, or
\* sleeps in Session::terminate.
C32_RegistryNotHeldInSession ==
    \A t \in LockThreads :
        (HeldBy(t) \cap RegistryLocks # {}) =>
            /\ HeldBy(t) \subseteq RegistryLocks
            /\ NextStep(t)[1] \notin {"lock", "sleep", "pty_read"}

\* C33: no thread sleeps while it holds a lock of the session or of a
\* registry.
C33_NoSleepUnderLock ==
    \A t \in LockThreads : NextStep(t)[1] = "sleep" => HeldBy(t) = {}

\* The lock a thread is about to take, and the threads that keep it from it:
\* any holder for a Mutex or a write, the writer for a read.
Wants(t) == IF NextStep(t)[1] \in {"lock", "write", "read"} THEN NextStep(t)[2] ELSE "none"

BlockedBy(t) ==
    IF Wants(t) = "none" THEN {}
    ELSE {h[1] : h \in {g \in held[Wants(t)] : NextStep(t)[1] # "read" \/ g[2] = "x"}}

\* C34: no interleaving of operations on the session and the registries
\* reaches a state in which a thread waits for a lock forever: there is no
\* set of threads each of which waits for a lock held by a thread of the set.
C34_NoThreadWaitsForever ==
    \A S \in SUBSET LockThreads :
        S # {} => \E t \in S : BlockedBy(t) \cap S = {}

\* C34, its case: start_recording holds the recorder and waits for the
\* parser, which a process_output holds together with the pty.
C34_WaitsOutOfOrder ==
    \E t, u \in LockThreads :
        /\ lop[t] = "start_recording"
        /\ HeldBy(t) = {"recorder"}
        /\ BlockedBy(t) = {u}
        /\ lop[u] = "process_output"
        /\ HeldBy(u) = {"pty", "parser"}

(***************************************************************************)
(* The parser on a split byte stream: parser.rs, session.rs                *)
(***************************************************************************)
ParseOnly == UNCHANGED <<regVars, ioVars, gridVars, waitVars, restVars, midVars, lockVars, frameVars>>

ESC == 27

\* The bytes of the streams: ESC, "[", "H" and "a".
ParseBytes == {ESC, 91, 72, 97}

MaxStream == 3         \* the longest byte stream

Streams == UNION {[1..n -> ParseBytes] : n \in 0..MaxStream}

\* Perform::print (parser.rs:297-322): the character into the cell at the
\* cursor, the cursor one column on, from the last column to the start of the
\* next row, of the last row at the end of the grid.
print_char(g, byte) ==
    [cells |-> [g.cells EXCEPT ![g.cursor.row + 1][g.cursor.col + 1] = byte],
     cursor |-> IF g.cursor.col + 1 >= FrameCols
                THEN Pos(Min(g.cursor.row + 1, FrameRows - 1), 0)
                ELSE Pos(g.cursor.row, g.cursor.col + 1)]

\* Perform::execute (parser.rs:325-353), LF and CR: LF moves the cursor one
\* row down in its column, CR to column 0 of its row.
execute_c0(g, byte) ==
    IF byte = 10
    THEN [g EXCEPT !.cursor = Pos(Min(g.cursor.row + 1, FrameRows - 1), g.cursor.col)]
    ELSE IF byte = 13 THEN [g EXCEPT !.cursor = Pos(g.cursor.row, 0)]
    ELSE g

\* Perform::csi_dispatch (parser.rs:377-524) with no parameters: "H" puts the
\* cursor at the home position, an unknown final byte is ignored.
csi_dispatch(g, byte) ==
    IF byte = 72 THEN [g EXCEPT !.cursor = Pos(0, 0)] ELSE g

\* Perform::esc_dispatch (parser.rs:527-529): nothing.
esc_dispatch(g, byte) == g

\* vte::Parser::new(): the state machine in its ground state.
vte_Parser_new == "ground"

\* vte::Parser::advance with the Parser as performer: one byte through the
\* state machine, as [state, grid]. ESC opens a sequence from any state,
\* "[" after ESC opens a control sequence, a byte 0x40..0x7E ends it; any
\* other byte after ESC ends an escape sequence; LF and CR are executed in
\* every state.
advance(p, byte) ==
    CASE byte = ESC -> [p EXCEPT !.state = "escape"]
      [] byte \in {10, 13} -> [p EXCEPT !.grid = execute_c0(p.grid, byte)]
      [] byte \notin {ESC, 10, 13} /\ p.state = "ground" ->
            [p EXCEPT !.grid = print_char(p.grid, byte)]
      [] byte = 91 /\ p.state = "escape" -> [p EXCEPT !.state = "csi_entry"]
      [] byte \notin {ESC, 10, 13, 91} /\ p.state = "escape" ->
            [state |-> "ground", grid |-> esc_dispatch(p.grid, byte)]
      [] byte \notin {ESC, 10, 13} /\ p.state = "csi_entry" ->
            [state |-> "ground", grid |-> csi_dispatch(p.grid, byte)]

RECURSIVE advance_all(_, _)
advance_all(p, bytes) ==
    IF bytes = <<>> THEN p
    ELSE advance_all(advance(p, Head(bytes)), Tail(bytes))

\* Parser::process (parser.rs:40-46): a vte parser made for the call, every
\* byte advanced through it, the grid kept and the vte parser dropped.
process(g, bytes) ==
    advance_all([state |-> vte_Parser_new, grid |-> g], bytes).grid

ParseInit ==
    /\ RegInit /\ IoIdle /\ GridNew /\ WaitIdle /\ TmuxIdle /\ OutIdle /\ NavIdle /\ DetIdle
    /\ MidIdle /\ LockIdle /\ FrameIdle
    /\ pstream \in Streams
    /\ pcut \in 0..Len(pstream)
    /\ pwhole = FrameGridNew
    /\ psplit = FrameGridNew
    /\ parsePc = "whole"

\* One process_output whose read returned the whole stream.
ProcessWhole ==
    /\ parsePc = "whole"
    /\ pwhole' = process(pwhole, pstream)
    /\ parsePc' = "first"
    /\ UNCHANGED <<pstream, pcut, psplit>>
    /\ ParseOnly

\* Two process_output calls: the read of the first returned pcut bytes,
\* the read of the second the rest.
ProcessFirst ==
    /\ parsePc = "first"
    /\ psplit' = process(psplit, SubSeq(pstream, 1, pcut))
    /\ parsePc' = "second"
    /\ UNCHANGED <<pstream, pcut, pwhole>>
    /\ ParseOnly

ProcessSecond ==
    /\ parsePc = "second"
    /\ psplit' = process(psplit, SubSeq(pstream, pcut + 1, Len(pstream)))
    /\ parsePc' = "done"
    /\ UNCHANGED <<pstream, pcut, pwhole>>
    /\ ParseOnly

ParseNext == ProcessWhole \/ ProcessFirst \/ ProcessSecond

ParseSpec == ParseInit /\ [][ParseNext]_vars

\* C35: the grid after process(a) and process(b) is the grid after
\* process(a ++ b), wherever the stream is split.
C35_SplitLeavesSameGrid ==
    parsePc = "done" => psplit = pwhole

(***************************************************************************)
(* Snapshots of a tmux-backed session: snapshot.rs, pty.rs, session.rs     *)
(***************************************************************************)
FrameOnly == UNCHANGED <<regVars, ioVars, gridVars, waitVars, restVars, midVars, lockVars, parseVars>>

\* The lines a pane can show: up to FrameCols letters, no blanks at the end.
PaneLines == UNION {[1..n -> {97}] : n \in 0..FrameCols}
Panes == [1..FrameRows -> PaneLines]

\* What tmux capture-pane -p prints (pty.rs:211-236): every line of the pane,
\* each ended by LF.
RECURSIVE capture_pane(_)
capture_pane(pane) ==
    IF pane = <<>> THEN <<>>
    ELSE Head(pane) \o <<10>> \o capture_pane(Tail(pane))

\* PtyHandle::read in tmux mode (pty.rs:246-275) as [bytes, cache]: nothing
\* when the capture is the cached one, else the capture behind ESC [ H, and
\* the capture cached.
tmux_read(cache, new_content) ==
    IF cache # <<>> /\ new_content = cache
    THEN [bytes |-> <<>>, cache |-> cache]
    ELSE [bytes |-> <<ESC, 91, 72>> \o new_content, cache |-> new_content]

\* Grid::clear (grid.rs:256-260): the cells, not the cursor.
grid_clear(g) == [g EXCEPT !.cells = FrameGridNew.cells]

\* Grid::to_plain_text (grid.rs:157-160), line for line.
raw_text(g) == [r \in 1..FrameRows |-> trim_end(g.cells[r])]

\* The grid of a complete frame: a cleared grid after one process of a
\* forced read of the pane.
CompleteFrame == process(FrameGridNew, tmux_read(<<>>, capture_pane(fpane)).bytes)

FrameInit ==
    /\ RegInit /\ IoIdle /\ GridNew /\ WaitIdle /\ TmuxIdle /\ OutIdle /\ NavIdle /\ DetIdle
    /\ MidIdle /\ LockIdle /\ ParseIdle
    /\ fpane \in Panes
    /\ fgrid = FrameGridNew
    /\ fcache = <<>>
    /\ fptyLock = 0
    /\ fop = [t \in FrameThreads |-> "none"]
    /\ fpc = [t \in FrameThreads |-> "idle"]
    /\ fbytes = [t \in FrameThreads |-> <<>>]
    /\ fraw = [t \in FrameThreads |-> <<>>]

\* A thread enters Session::snapshot (a wait_for poll does the same) or
\* Session::process_output; both begin with a process_output, the snapshot's
\* inside wait_for_idle (snapshot.rs:46, 110).
FrameCall(t, op) ==
    /\ fpc[t] = "idle"
    /\ fop' = [fop EXCEPT ![t] = op]
    /\ fpc' = [fpc EXCEPT ![t] = "read"]
    /\ fraw' = [fraw EXCEPT ![t] = <<>>]
    /\ UNCHANGED <<fpane, fgrid, fcache, fptyLock, fbytes>>
    /\ FrameOnly

\* Session::process_output (session.rs:186-187): the pty locked and read.
FrameRead(t) ==
    /\ fpc[t] \in {"read", "fresh_read"}
    /\ fptyLock = 0
    /\ fptyLock' = t
    /\ LET r == tmux_read(fcache, capture_pane(fpane))
       IN /\ fbytes' = [fbytes EXCEPT ![t] = r.bytes]
          /\ fcache' = r.cache
    /\ fpc' = [fpc EXCEPT ![t] = IF fpc[t] = "read" THEN "parse" ELSE "fresh_parse"]
    /\ UNCHANGED <<fpane, fgrid, fop, fraw>>
    /\ FrameOnly

\* Session::process_output (session.rs:190-210): the bytes, if any, through
\* the parser under its lock, and the pty released at the return.
FrameParse(t) ==
    /\ fpc[t] \in {"parse", "fresh_parse"}
    /\ fptyLock = t
    /\ fgrid' = IF fbytes[t] # <<>> THEN process(fgrid, fbytes[t]) ELSE fgrid
    /\ fptyLock' = 0
    /\ fbytes' = [fbytes EXCEPT ![t] = <<>>]
    /\ fpc' = [fpc EXCEPT ![t] =
                 IF fpc[t] = "fresh_parse" THEN "grid"
                 ELSE IF fop[t] = "snapshot" THEN "clear" ELSE "done"]
    /\ UNCHANGED <<fpane, fcache, fop, fraw>>
    /\ FrameOnly

\* Session::snapshot (snapshot.rs:54-59): the grid cleared under the parser
\* lock.
FrameClear(t) ==
    /\ fpc[t] = "clear"
    /\ fgrid' = grid_clear(fgrid)
    /\ fpc' = [fpc EXCEPT ![t] = "invalidate"]
    /\ UNCHANGED <<fpane, fcache, fptyLock, fop, fbytes, fraw>>
    /\ FrameOnly

\* Session::snapshot (snapshot.rs:61-65), PtyHandle::invalidate_tmux_cache
\* (pty.rs:499-505): the cache emptied under the pty lock.
FrameInvalidate(t) ==
    /\ fpc[t] = "invalidate"
    /\ fptyLock = 0
    /\ fcache' = <<>>
    /\ fpc' = [fpc EXCEPT ![t] = "fresh_read"]
    /\ UNCHANGED <<fpane, fgrid, fptyLock, fop, fbytes, fraw>>
    /\ FrameOnly

\* Session::snapshot (snapshot.rs:71-90): the grid read under the parser lock.
FrameGrid(t) ==
    /\ fpc[t] = "grid"
    /\ fraw' = [fraw EXCEPT ![t] = raw_text(fgrid)]
    /\ fpc' = [fpc EXCEPT ![t] = "done"]
    /\ UNCHANGED <<fpane, fgrid, fcache, fptyLock, fop, fbytes>>
    /\ FrameOnly

\* The caller goes on to its next call.
FrameReturn(t) ==
    /\ fpc[t] = "done"
    /\ fpc' = [fpc EXCEPT ![t] = "idle"]
    /\ fop' = [fop EXCEPT ![t] = "none"]
    /\ UNCHANGED <<fpane, fgrid, fcache, fptyLock, fbytes, fraw>>
    /\ FrameOnly

FrameNext ==
    \E t \in FrameThreads :
        \/ \E op \in {"snapshot", "process_output"} : FrameCall(t, op)
        \/ FrameRead(t)
        \/ FrameParse(t)
        \/ FrameClear(t)
        \/ FrameInvalidate(t)
        \/ FrameGrid(t)
        \/ FrameReturn(t)

FrameSpec == FrameInit /\ [][FrameNext]_vars

\* C36: the raw_text of every snapshot of a tmux-backed session is that of a
\* complete frame of the pane, whatever runs on the session at the same time.
C36_SnapshotIsCompleteFrame ==
    \A t \in FrameThreads :
        (fop[t] = "snapshot" /\ fpc[t] = "done") => fraw[t] = raw_text(CompleteFrame)

\* C39: every line of the captured pane is written from column 0 of its grid
\* row: the raw_text of a complete frame is the pane, line for line.
C39_LinesStartAtColumnZero ==
    \A t \in FrameThreads :
        (fop[t] = "snapshot" /\ fpc[t] = "done" /\ fraw[t] = raw_text(CompleteFrame))
            => fraw[t] = fpane

(***************************************************************************)
(* Claims about concurrent closes                                          *)
(***************************************************************************)

\* C37: concurrent close calls on one session id behave as if run one after
\* the other: a close_session returns success only for an id for which no
\* close has returned success before; every other call fails with
\* session-not-found.
C37_CloseSucceedsOnce ==
    [][\A t \in Threads :
          (pc[t] = "close_remove" /\ pc'[t] = "idle") => arg[t] \notin closedOk]_vars

(***************************************************************************)
(* Claims about the result of a content-mode wait                          *)
(***************************************************************************)

\* C38: in content mode the condition_met of a returned result agrees with
\* the snapshot returned with it: it is true exactly when that snapshot
\* satisfies the condition.
C38_FlagAgreesWithSnapshot ==
    (wpc = "done" /\ waitMode = "content" /\ wresult \in {"met", "notmet"})
        => (wresult = "met" <=> matches)

(***************************************************************************)
(* Claims about the arithmetic of the key encoding                         *)
(***************************************************************************)

\* C40: for every key text that parse accepts the encoding of the key
\* succeeds: the control code of Ctrl is computed without underflow and the
\* encoding does not panic.
C40_EncodingNeverUnderflows ==
    /\ keyPc # "panic"
    /\ (keyPc \in {"reparse", "done"} /\ parsed.ok) => ~ctrl_code_underflows(parsed.key[1])

====
